---------------------------- MODULE Spec2Model ----------------------------
(***************************************************************************)
(* LocalSite-ai: the streaming generation pipeline.                        *)
(*                                                                         *)
(*   hooks/use-code-generation.ts (src/unnamed/part_001)  the controller   *)
(*       and the NDJSON decoder (useCodeGeneration.generateCode)           *)
(*   app/api/generate-code/route.ts                       the encoder      *)
(*                                                                         *)
(* A JavaScript string is a sequence of characters, each character named   *)
(* by a TLA+ string; a byte string is a sequence of bytes.  An ASCII       *)
(* character and its byte share a name; the one non-ASCII character of     *)
(* the model is "U+E9" (bytes "xC3" "xA9"), and "U+FFFD" is the            *)
(* replacement character TextDecoder writes for malformed input.           *)
(***************************************************************************)
EXTENDS Integers, Sequences, FiniteSets

\* ------------------------------------------------------------------ bounds

\* Requests one controller instance is asked for in a run.
MaxRequests == 2
\* Deltas the model backend emits on result.fullStream in one request.
MaxParts == 2
\* Concurrent generateCode calls the controller state is sized for.
MaxSlots == 1
\* Pieces an input of the fence cleanup is put together from.
MaxPieces == 3
\* Chunks the tag-based hook reads in one request.
MaxFeeds == 3

Slots == 1..MaxSlots

\* ----------------------------------------------------------------- strings

NL == "\n"
QUOTE == "\""
BACKSLASH == "\\"
\* The backtick, U+0060 (a string of the module cannot hold the character).
BACKTICK == "U+60"
EACUTE == "U+E9"
REPLACEMENT == "U+FFFD"

\* String.prototype.trim's white space, as far as the model's alphabet goes.
WhiteSpace == {" ", NL, "\t", "\r"}

StartsWith(s, p) ==
    /\ Len(p) <= Len(s)
    /\ SubSeq(s, 1, Len(p)) = p

EndsWith(s, p) ==
    /\ Len(p) <= Len(s)
    /\ SubSeq(s, Len(s) - Len(p) + 1, Len(s)) = p

RECURSIVE TrimStart(_)
TrimStart(s) ==
    IF s # <<>> /\ Head(s) \in WhiteSpace THEN TrimStart(Tail(s)) ELSE s

RECURSIVE TrimEnd(_)
TrimEnd(s) ==
    IF s # <<>> /\ s[Len(s)] \in WhiteSpace
    THEN TrimEnd(SubSeq(s, 1, Len(s) - 1))
    ELSE s

\* s.trim()
Trim(s) == TrimEnd(TrimStart(s))

RECURSIVE Concat(_)
\* The concatenation of a sequence of strings.
Concat(ss) == IF ss = <<>> THEN <<>> ELSE Head(ss) \o Concat(Tail(ss))

\* s.split('\n'): the pieces between the newlines, at least one piece.
RECURSIVE SplitLines(_)
SplitLines(s) ==
    IF \A i \in 1..Len(s) : s[i] # NL
    THEN <<s>>
    ELSE LET i == CHOOSE j \in 1..Len(s) :
                      /\ s[j] = NL
                      /\ \A k \in 1..(j - 1) : s[k] # NL
         IN  <<SubSeq(s, 1, i - 1)>> \o SplitLines(SubSeq(s, i + 1, Len(s)))

\* ------------------------------------------------------------ fence cleanup

\* /^```html\n/
Opener == <<BACKTICK, BACKTICK, BACKTICK, "h", "t", "m", "l", NL>>
\* /```$/  (no m flag: the end of the string only)
Closer == <<BACKTICK, BACKTICK, BACKTICK>>

\* s.replace(/^```html\n/, '')
StripOpener(s) ==
    IF StartsWith(s, Opener) THEN SubSeq(s, Len(Opener) + 1, Len(s)) ELSE s

\* s.replace(/```$/, '')
StripCloser(s) ==
    IF EndsWith(s, Closer) THEN SubSeq(s, 1, Len(s) - Len(Closer)) ELSE s

\* A cleanup that forgets the closer.
FenceCleanupOpenerOnly(s) == StripOpener(s)

\* codeBuffer.replace(/^```html\n/, '').replace(/```$/, '')
FenceCleanup(s) == StripCloser(StripOpener(s))

\* -------------------------------------------------------------------- UTF-8

\* TextEncoder.encode: the UTF-8 bytes of a string.
RECURSIVE Utf8Encode(_)
Utf8Encode(s) ==
    IF s = <<>> THEN <<>>
    ELSE (IF Head(s) = EACUTE THEN <<"xC3", "xA9">> ELSE <<Head(s)>>)
             \o Utf8Encode(Tail(s))

\* new TextDecoder().decode(value): a fresh, non-streaming decoder for every
\* chunk.  A lead byte whose continuation byte is not in the same chunk, and a
\* continuation byte with no lead byte before it, each decode to U+FFFD.
RECURSIVE Utf8Decode(_)
Utf8Decode(b) ==
    IF b = <<>> THEN <<>>
    ELSE IF Head(b) = "xC3"
         THEN IF Len(b) >= 2 /\ b[2] = "xA9"
              THEN <<EACUTE>> \o Utf8Decode(Tail(Tail(b)))
              ELSE <<REPLACEMENT>> \o Utf8Decode(Tail(b))
         ELSE IF Head(b) = "xA9"
              THEN <<REPLACEMENT>> \o Utf8Decode(Tail(b))
              ELSE <<Head(b)>> \o Utf8Decode(Tail(b))

\* --------------------------------------------------------------------- JSON
\* A record's text is {"type":"text","content":"..."}.  The text between the
\* opening brace and the content's opening quote is one token of the model
\* (the transport does not split inside it); everything else is a character.

TextKey == "\"type\":\"text\",\"content\":"
ReasoningKey == "\"type\":\"reasoning\",\"content\":"

KeyOf(type) == IF type = "text" THEN TextKey ELSE ReasoningKey
TypeOf(key) == IF key = TextKey THEN "text" ELSE "reasoning"

\* JSON.stringify's escapes inside a string literal.
RECURSIVE JsonEscape(_)
JsonEscape(s) ==
    IF s = <<>> THEN <<>>
    ELSE (CASE Head(s) = QUOTE -> <<BACKSLASH, QUOTE>>
            [] Head(s) = BACKSLASH -> <<BACKSLASH, BACKSLASH>>
            [] Head(s) = NL -> <<BACKSLASH, "n">>
            [] OTHER -> <<Head(s)>>)
             \o JsonEscape(Tail(s))

\* A serialization that copies the content as it is.
JsonStringifyUnescaped(rec) ==
    <<"{", KeyOf(rec.type), QUOTE>> \o rec.content \o <<QUOTE, "}">>

\* JSON.stringify({ type, content })
JsonStringify(rec) ==
    <<"{", KeyOf(rec.type), QUOTE>> \o JsonEscape(rec.content) \o <<QUOTE, "}">>

\* Whether s is the inside of a JSON string literal: no bare quote, no bare
\* control character, every backslash followed by an escape character.
RECURSIVE JsonStringBodyOk(_)
JsonStringBodyOk(s) ==
    IF s = <<>> THEN TRUE
    ELSE IF Head(s) = BACKSLASH
         THEN /\ Len(s) >= 2
              /\ s[2] \in {QUOTE, BACKSLASH, "n"}
              /\ JsonStringBodyOk(Tail(Tail(s)))
         ELSE /\ Head(s) \notin {QUOTE, NL, "\t", "\r", TextKey, ReasoningKey}
              /\ JsonStringBodyOk(Tail(s))

RECURSIVE JsonUnescape(_)
JsonUnescape(s) ==
    IF s = <<>> THEN <<>>
    ELSE IF Head(s) = BACKSLASH
         THEN <<(IF s[2] = "n" THEN NL ELSE s[2])>> \o JsonUnescape(Tail(Tail(s)))
         ELSE <<Head(s)>> \o JsonUnescape(Tail(s))

\* JSON.parse(line), then what the caller reads of the value:
\*   kind "record": an object with type and content;
\*   kind "other":  valid JSON without a type (a string literal, {});
\*   kind "error":  JSON.parse throws.
JsonParse(line) ==
    LET t == Trim(line)
        n == Len(t)
        none == [kind |-> "error", type |-> "", content |-> <<>>]
    IN  IF /\ n >= 5
           /\ t[1] = "{"
           /\ t[2] \in {TextKey, ReasoningKey}
           /\ t[3] = QUOTE
           /\ t[n - 1] = QUOTE
           /\ t[n] = "}"
           /\ JsonStringBodyOk(SubSeq(t, 4, n - 2))
        THEN [kind |-> "record", type |-> TypeOf(t[2]),
              content |-> JsonUnescape(SubSeq(t, 4, n - 2))]
        ELSE IF \/ t = <<"{", "}">>
                \/ /\ n >= 2
                   /\ t[1] = QUOTE
                   /\ t[n] = QUOTE
                   /\ JsonStringBodyOk(SubSeq(t, 2, n - 1))
             THEN [none EXCEPT !.kind = "other"]
             ELSE none


\* ------------------------------------------------------------------- state

VARIABLES
    \* useState of useCodeGeneration (part_001:20-24)
    generatedCode, isGenerating, generationComplete, thinkingOutput, isThinking,
    \* call[c]: the locals of the generateCode call in slot c, its position,
    \* and the values it has handed to setGeneratedCode / setThinkingOutput
    call,
    \* stream[c]: the response stream of slot c's request: the encoder's
    \* ReadableStream and the bytes in flight to the reader
    stream,
    \* toast.error calls, in order
    toasts,
    \* how the last call that returned ended
    lastOutcome,
    \* the lines handed to console.warn (part_001:125), in order
    warnings,
    \* requests the user may still ask for
    requestsLeft,
    \* the parts the model backend may emit on result.fullStream
    deltaPool,
    \* the inputs the user may trigger a request with
    argPool,
    \* the fence cleanup on its own: an input, and the cleanup applied
    \* once and twice
    fenceIn, fenceOnce, fenceTwice, fenceStage,
    \* the tag-based hook (part_000): the locals of its read loop, the state
    \* it publishes, the chunks it has read and the reads still to come
    legacy,
    \* process.env of the server, as far as the providers read it
    env,
    \* the last call into the provider registry or the route's front part:
    \* what was asked, what the network did, what came back
    reply,
    \* the page around the hook (part_002, part_004): which view is rendered,
    \* the generation view's newPrompt, and what its send handler last did
    view,
    \* the stream OllamaProvider.generateCode returns (part_005): the upstream
    \* body still to read and what the adapter has enqueued
    ollama

react == <<generatedCode, isGenerating, generationComplete, thinkingOutput,
           isThinking>>
environment == <<requestsLeft, deltaPool, argPool>>
fence == <<fenceIn, fenceOnce, fenceTwice, fenceStage>>
registry == <<env, reply, view, ollama>>
vars ==
    <<react, call, stream, toasts, lastOutcome, environment, fence, warnings,
      legacy, registry>>

\* A slot with no call in it.
NoArgs == [prompt |-> <<>>, model |-> <<>>, provider |-> <<>>]

\* What a call finds in the hook's state when it starts: whether there was
\* code, whether there was reasoning, and the two flags.
NothingFound ==
    [generatedCode |-> FALSE, thinkingOutput |-> FALSE, isThinking |-> FALSE,
     generationComplete |-> FALSE]

IdleCall ==
    [pc |-> "idle", args |-> NoArgs, error |-> "",
     codeBuffer |-> <<>>, reasoningBuffer |-> <<>>, lineBuffer |-> <<>>,
     hasReceivedReasoning |-> FALSE, lines |-> <<>>,
     pubCode |-> <<>>, pubThinking |-> <<>>, found |-> NothingFound]

\* No response stream.  state is the state of the route's ReadableStream,
\* upstream how the model call behind fullStream is doing, wire the bytes in
\* flight, sent every byte put on the wire so far, foreign the number of
\* pieces on it that the encoder did not write.
NoStream ==
    [state |-> "none", upstream |-> "none", wire |-> <<>>, consumed |-> <<>>,
     enqueued |-> <<>>, sent |-> <<>>, foreign |-> 0]

\* ------------------------------------------------------------- environment

\* What the user may have typed or selected when a request is triggered.
Prompts == {<<>>, <<" ">>, <<"p">>}
Models == {<<>>, <<" ">>, <<"m">>}
Providers == {<<>>, <<"deepseek">>}

ArgSets == [prompt : Prompts, model : Models, provider : Providers]

\* The inputs of the wire runs: one request that passes the validation, one
\* that does not.
WireArgSets ==
    {[prompt |-> <<"p">>, model |-> <<"m">>, provider |-> <<"deepseek">>],
     [prompt |-> <<" ">>, model |-> <<"m">>, provider |-> <<"deepseek">>]}

TextDelta(s) == [type |-> "text-delta", text |-> s]
ReasoningDelta(s) == [type |-> "reasoning-delta", text |-> s]
\* Any other part of fullStream (start, finish, ...).
FinishPart == [type |-> "finish", text |-> <<>>]
\* The part fullStream delivers when the model call fails while streaming.
ErrorPart == [type |-> "error", text |-> <<>>]

\* The backend of the controller runs: plain short deltas.
PlainPool ==
    {TextDelta(<<"a">>), ReasoningDelta(<<"b">>), FinishPart, ErrorPart}

\* The backend of the wire runs: deltas with fences, a newline, a quote,
\* a non-ASCII character, an opener with another language tag, and the
\* fenced page of the scenario.
OtherOpener == <<BACKTICK, BACKTICK, BACKTICK, "j", "s", NL>>
FencedPage ==
    Opener \o <<"<", "p", ">", "h", "i", "<", "/", "p", ">", NL>> \o Closer

WirePool ==
    {TextDelta(<<"a">>), TextDelta(<<EACUTE>>), TextDelta(Opener),
     TextDelta(Closer),
     TextDelta(OtherOpener), TextDelta(FencedPage), TextDelta(<<QUOTE, NL>>),
     ReasoningDelta(<<"b">>), FinishPart}

\* The backend of the raw runs.
RawRunPool == {TextDelta(<<"a">>), ReasoningDelta(<<"b">>)}

\* Errors generateCodeStream may throw in the route (provider.ts).
UpstreamErrors == {"Unsupported provider: ollama2", "Unsupported provider: x"}


\* ------------------------------------------------- the controller (part_001)

\* The serializing caller: GenerationView.handleSendNewPrompt returns at once
\* while isGenerating is true, and the welcome view, the other trigger, is
\* replaced by the generation view on its first request.
NoCallActive == \A d \in Slots : call[d].pc = "idle"

\* !prompt.trim() || !model || !provider
ValidationFails(a) ==
    \/ Trim(a.prompt) = <<>>
    \/ a.model = <<>>
    \/ a.provider = <<>>

\* generateCode, line 34-37: the validation, and the toast and the return
\* when it fails.
Validate(c, a) ==
    IF ValidationFails(a)
    THEN /\ toasts' = Append(toasts, "validation")
         /\ lastOutcome' = "invalid"
         /\ UNCHANGED call
    ELSE /\ call' = [call EXCEPT ![c] =
                [IdleCall EXCEPT
                    !.pc = "L39",
                    !.args = a,
                    !.found = [generatedCode |-> generatedCode # <<>>,
                               thinkingOutput |-> thinkingOutput # <<>>,
                               isThinking |-> isThinking,
                               generationComplete |-> generationComplete]]]
         /\ UNCHANGED <<toasts, lastOutcome>>

\* A request is triggered: generateCode is called with the current inputs.
\* The call takes the first free slot.
GenerateCode(c) ==
    /\ requestsLeft > 0
    /\ call[c].pc = "idle"
    /\ \A d \in Slots : d < c => call[d].pc # "idle"
    /\ NoCallActive
    /\ requestsLeft' = requestsLeft - 1
    /\ \E a \in argPool : Validate(c, a)
    /\ UNCHANGED <<react, stream, deltaPool, argPool, fence, warnings, legacy, registry>>

\* The reset, one state update a step (lines 39-43).
SetIsGeneratingTrue(c) ==
    /\ call[c].pc = "L39"
    /\ isGenerating' = TRUE
    /\ call' = [call EXCEPT ![c].pc = "L40"]
    /\ UNCHANGED <<generatedCode, generationComplete, thinkingOutput, isThinking,
                   stream, toasts, lastOutcome, environment, fence, warnings, legacy, registry>>

\* A reset that keeps the code of the request before.
ResetCodeKept(c) ==
    /\ call[c].pc = "L40"
    /\ call' = [call EXCEPT ![c].pc = "L41"]
    /\ UNCHANGED <<react, stream, toasts, lastOutcome, environment, fence, warnings, legacy, registry>>

ResetGeneratedCode(c) ==
    /\ call[c].pc = "L40"
    /\ generatedCode' = <<>>
    /\ call' = [call EXCEPT ![c].pc = "L41"]
    /\ UNCHANGED <<isGenerating, generationComplete, thinkingOutput, isThinking,
                   stream, toasts, lastOutcome, environment, fence, warnings, legacy, registry>>

ResetThinkingOutput(c) ==
    /\ call[c].pc = "L41"
    /\ thinkingOutput' = <<>>
    /\ call' = [call EXCEPT ![c].pc = "L42"]
    /\ UNCHANGED <<generatedCode, isGenerating, generationComplete, isThinking,
                   stream, toasts, lastOutcome, environment, fence, warnings, legacy, registry>>

ResetIsThinking(c) ==
    /\ call[c].pc = "L42"
    /\ isThinking' = FALSE
    /\ call' = [call EXCEPT ![c].pc = "L43"]
    /\ UNCHANGED <<generatedCode, isGenerating, generationComplete, thinkingOutput,
                   stream, toasts, lastOutcome, environment, fence, warnings, legacy, registry>>

\* A reset that keeps the complete flag of the request before.
ResetCompleteKept(c) ==
    /\ call[c].pc = "L43"
    /\ call' = [call EXCEPT ![c].pc = "fetch"]
    /\ UNCHANGED <<react, stream, toasts, lastOutcome, environment, fence, warnings, legacy, registry>>

ResetGenerationComplete(c) ==
    /\ call[c].pc = "L43"
    /\ generationComplete' = FALSE
    /\ call' = [call EXCEPT ![c].pc = "fetch"]
    /\ UNCHANGED <<generatedCode, isGenerating, thinkingOutput, isThinking,
                   stream, toasts, lastOutcome, environment, fence, warnings, legacy, registry>>

\* Lines 68-78: the body's error message is thrown inside the try whose catch
\* ignores everything, so the error that leaves carries the status only.
HttpErrorMessage(status, bodyError) ==
    IF status = 400 THEN "HTTP error! status: 400" ELSE "HTTP error! status: 500"

\* route.ts POST, as far as the status goes: 400 without a prompt or a model,
\* 500 when generateCodeStream throws, 200 with the stream otherwise.
PostStatus(a, upstreamThrows) ==
    IF a.prompt = <<>> \/ a.model = <<>> THEN 400
    ELSE IF upstreamThrows THEN 500 ELSE 200

\* await fetch(...) rejects: the endpoint cannot be reached.
FetchRejects(c) ==
    /\ call[c].pc = "fetch"
    /\ call' = [call EXCEPT ![c].pc = "catch", ![c].error = "Failed to fetch"]
    /\ UNCHANGED <<react, stream, toasts, lastOutcome, environment, fence, warnings, legacy, registry>>

\* The endpoint answers with a non-success status (lines 68-78).
FetchNotOk(c) ==
    /\ call[c].pc = "fetch"
    /\ \E e \in UpstreamErrors :
          /\ PostStatus(call[c].args, TRUE) # 200
          /\ call' = [call EXCEPT ![c].pc = "catch",
                                  ![c].error = HttpErrorMessage(
                                      PostStatus(call[c].args, TRUE), e)]
    /\ UNCHANGED <<react, stream, toasts, lastOutcome, environment, fence, warnings, legacy, registry>>

\* The endpoint answers 200 with the stream; the reader is taken (line 80).
FetchOk(c) ==
    /\ call[c].pc = "fetch"
    /\ PostStatus(call[c].args, FALSE) = 200
    /\ call' = [call EXCEPT ![c].pc = "read"]
    /\ stream' = [stream EXCEPT ![c] =
           [NoStream EXCEPT !.state = "open", !.upstream = "running"]]
    /\ UNCHANGED <<react, toasts, lastOutcome, environment, fence, warnings, legacy, registry>>


\* ------------------------------------------------------ the encoder (route)

\* What start() enqueues for one part of fullStream (route.ts:59-70): one
\* chunk, the record's JSON text and a newline, for a text or a reasoning
\* delta, and nothing for any other part.
EncoderChunksRetyped(part) ==
    IF part.type \in {"text-delta", "reasoning-delta"}
    THEN <<Utf8Encode(JsonStringify([type |-> "text", content |-> part.text])
                          \o <<NL>>)>>
    ELSE <<>>

EncoderChunks(part) ==
    IF part.type = "text-delta"
    THEN <<Utf8Encode(JsonStringify([type |-> "text", content |-> part.text])
                          \o <<NL>>)>>
    ELSE IF part.type = "reasoning-delta"
         THEN <<Utf8Encode(JsonStringify([type |-> "reasoning",
                                          content |-> part.text]) \o <<NL>>)>>
         ELSE <<>>

\* A text or a reasoning delta.
IsDelta(part) == part.type \in {"text-delta", "reasoning-delta"}

\* One turn of for await (const part of result.fullStream); consumed keeps
\* the deltas taken so far, at most MaxParts of them.  An error part is the
\* last part but for the stream's end.
EncodePart(c) ==
    /\ stream[c].state = "open"
    /\ stream[c].upstream = "running"
    /\ Len(stream[c].consumed) + stream[c].foreign < MaxParts
    /\ \E part \in deltaPool :
          stream' = [stream EXCEPT
              ![c].upstream = IF part.type = "error" THEN "failed" ELSE @,
              ![c].consumed = IF IsDelta(part) THEN Append(@, part) ELSE @,
              ![c].enqueued = @ \o EncoderChunks(part),
              ![c].wire = @ \o Concat(EncoderChunks(part)),
              ![c].sent = @ \o Concat(EncoderChunks(part))]
    /\ UNCHANGED <<react, call, toasts, lastOutcome, environment, fence, warnings, legacy, registry>>

\* fullStream ends: controller.close() (route.ts:72).
EncoderClose(c) ==
    /\ stream[c].state = "open"
    /\ stream' = [stream EXCEPT
           ![c].state = "closed",
           ![c].upstream = IF @ = "running" THEN "ended" ELSE @]
    /\ UNCHANGED <<react, call, toasts, lastOutcome, environment, fence, warnings, legacy, registry>>

\* fullStream throws: controller.error(error) (route.ts:73-76).
EncoderError(c) ==
    /\ stream[c].state = "open"
    /\ stream[c].upstream = "running"
    /\ stream' = [stream EXCEPT ![c].state = "errored",
                                ![c].upstream = "failed"]
    /\ UNCHANGED <<react, call, toasts, lastOutcome, environment, fence, warnings, legacy, registry>>

\* Bytes on the response body that the encoder did not write (a server of
\* the legacy plain-text format, line 123; a record whose newline is still to
\* come): a plain-text line, a plain-text fragment, a newline, an empty JSON
\* object, a text record and a reasoning record without their newline.  A
\* response carries at most MaxParts pieces, whoever writes them.
RawPieces ==
    {<<"x", NL>>, <<"x">>, <<NL>>, <<"{", "}">>,
     JsonStringify([type |-> "text", content |-> <<"c">>]),
     JsonStringify([type |-> "reasoning", content |-> <<"d">>])}

ServerWritesRaw(c) ==
    /\ stream[c].state = "open"
    /\ Len(stream[c].consumed) + stream[c].foreign < MaxParts
    /\ \E piece \in RawPieces :
          stream' = [stream EXCEPT
              ![c].wire = @ \o Utf8Encode(piece),
              ![c].sent = @ \o Utf8Encode(piece),
              ![c].foreign = @ + 1]
    /\ UNCHANGED <<react, call, toasts, lastOutcome, environment, fence,
                   warnings, legacy, registry>>

\* ------------------------------------------------- the read loop (part_001)

\* lines.pop() || ""
LastOf(ls) == ls[Len(ls)]
AllButLast(ls) == SubSeq(ls, 1, Len(ls) - 1)

\* reader.read() yields a chunk: any non-empty run of the bytes in flight
\* (lines 91-103).
ReadChunk(c) ==
    /\ call[c].pc = "read"
    /\ \E n \in 1..Len(stream[c].wire) :
          LET value == SubSeq(stream[c].wire, 1, n)
              chunk == Utf8Decode(value)
              lines == SplitLines(call[c].lineBuffer \o chunk)
          IN  /\ stream' = [stream EXCEPT
                     ![c].wire = SubSeq(@, n + 1, Len(@))]
              /\ call' = [call EXCEPT
                     ![c].lineBuffer = LastOf(lines),
                     ![c].lines = AllButLast(lines),
                     ![c].pc = IF Len(lines) > 1 THEN "lines" ELSE "read"]
    /\ UNCHANGED <<react, toasts, lastOutcome, environment, fence, warnings, legacy, registry>>

\* reader.read() yields done: the stream was closed and every byte was read.
ReadDone(c) ==
    /\ call[c].pc = "read"
    /\ stream[c].state = "closed"
    /\ stream[c].wire = <<>>
    /\ call' = [call EXCEPT ![c].pc = "remnant"]
    /\ UNCHANGED <<react, stream, toasts, lastOutcome, environment, fence, warnings, legacy, registry>>

\* A read that takes the errored stream for a stream that is done.
ReadErrorAsDone(c) ==
    /\ call[c].pc = "read"
    /\ stream[c].state = "errored"
    /\ call' = [call EXCEPT ![c].pc = "remnant"]
    /\ UNCHANGED <<react, stream, toasts, lastOutcome, environment, fence,
                   warnings, legacy, registry>>

\* reader.read() rejects: the encoder errored the stream.  The response is
\* abandoned with the reader's exit.
ReadError(c) ==
    /\ call[c].pc = "read"
    /\ stream[c].state = "errored"
    /\ call' = [call EXCEPT ![c].pc = "catch", ![c].error = "network error"]
    /\ stream' = [stream EXCEPT ![c] = NoStream]
    /\ UNCHANGED <<react, toasts, lastOutcome, environment, fence, warnings, legacy, registry>>

\* reader.read() rejects: the connection is lost.
TransportFailure(c) ==
    /\ call[c].pc = "read"
    /\ stream[c].state \in {"open", "closed"}
    /\ call' = [call EXCEPT ![c].pc = "catch", ![c].error = "network error"]
    /\ stream' = [stream EXCEPT ![c] = NoStream]
    /\ UNCHANGED <<react, toasts, lastOutcome, environment, fence, warnings, legacy, registry>>

\* The head of the lines still to process is the first reasoning record
\* of the call.
FirstReasoningAhead(c) ==
    /\ call[c].pc = "lines"
    /\ Trim(Head(call[c].lines)) # <<>>
    /\ JsonParse(Head(call[c].lines)).kind = "record"
    /\ JsonParse(Head(call[c].lines)).type = "reasoning"
    /\ ~call[c].hasReceivedReasoning

\* Lines 115-118.
SetIsThinkingTrue(c) ==
    /\ FirstReasoningAhead(c)
    /\ isThinking' = TRUE
    /\ call' = [call EXCEPT ![c].hasReceivedReasoning = TRUE]
    /\ UNCHANGED <<generatedCode, isGenerating, generationComplete, thinkingOutput,
                   stream, toasts, lastOutcome, environment, fence, warnings, legacy, registry>>

\* What one line does to the locals (lines 106-126 and 131-143): a text
\* record is appended to codeBuffer, a reasoning record to reasoningBuffer;
\* a blank line, a value without a type and a line JSON.parse rejects change
\* nothing.
AfterLine(cr, line) ==
    LET part == JsonParse(line)
    IN  IF Trim(line) = <<>> \/ part.kind # "record" THEN cr
        ELSE IF part.type = "text"
             THEN [cr EXCEPT
                      !.codeBuffer = @ \o part.content,
                      !.pubCode = Append(@, FenceCleanup(cr.codeBuffer
                                                             \o part.content))]
             ELSE [cr EXCEPT
                      !.reasoningBuffer = @ \o part.content,
                      !.pubThinking = Append(@, cr.reasoningBuffer
                                                    \o part.content)]

\* The state updates of one line: setGeneratedCode of the cleaned codeBuffer
\* (line 113), setThinkingOutput of reasoningBuffer (line 120).
PublishLine(cr, line) ==
    LET part == JsonParse(line)
        after == AfterLine(cr, line)
    IN  /\ generatedCode' =
              IF Trim(line) # <<>> /\ part.kind = "record" /\ part.type = "text"
              THEN FenceCleanup(after.codeBuffer) ELSE generatedCode
        /\ thinkingOutput' =
              IF Trim(line) # <<>> /\ part.kind = "record"
                 /\ part.type = "reasoning"
              THEN after.reasoningBuffer ELSE thinkingOutput

\* A catch that logs nothing.
WarnedAfterSilent(ws, line) == ws

\* The catch of the loop's parse (lines 122-126): console.warn of a line that
\* is not blank and that JSON.parse rejects.
WarnedAfter(ws, line) ==
    IF Trim(line) # <<>> /\ JsonParse(line).kind = "error"
    THEN Append(ws, line) ELSE ws

\* A loop that a line JSON.parse rejects aborts, and that warns of nothing.
ProcessLineAborting(c) ==
    /\ call[c].pc = "lines"
    /\ ~FirstReasoningAhead(c)
    /\ LET line == Head(call[c].lines)
           rest == Tail(call[c].lines)
           bad == Trim(line) # <<>> /\ JsonParse(line).kind = "error"
       IN  /\ PublishLine(call[c], line)
           /\ call' = [call EXCEPT ![c] =
                  [AfterLine(call[c], line) EXCEPT
                      !.lines = rest,
                      !.error = IF bad THEN "parse error" ELSE @,
                      !.pc = IF bad THEN "catch"
                             ELSE IF rest = <<>> THEN "read" ELSE "lines"]]
    /\ UNCHANGED <<isGenerating, generationComplete, isThinking,
                   stream, toasts, lastOutcome, environment, fence, warnings, legacy, registry>>

\* One turn of for (const line of lines) (lines 105-127).
ProcessLine(c) ==
    /\ call[c].pc = "lines"
    /\ ~FirstReasoningAhead(c)
    /\ LET line == Head(call[c].lines)
           rest == Tail(call[c].lines)
       IN  /\ PublishLine(call[c], line)
           /\ call' = [call EXCEPT ![c] =
                  [AfterLine(call[c], line) EXCEPT
                      !.lines = rest,
                      !.pc = IF rest = <<>> THEN "read" ELSE "lines"]]
    /\ warnings' = WarnedAfter(warnings, Head(call[c].lines))
    /\ UNCHANGED <<isGenerating, generationComplete, isThinking,
                   stream, toasts, lastOutcome, environment, fence, legacy, registry>>

\* A remnant that is thrown away unparsed.
ProcessRemnantSkipped(c) ==
    /\ call[c].pc = "remnant"
    /\ call' = [call EXCEPT ![c].pc = "L147"]
    /\ UNCHANGED <<react, stream, toasts, lastOutcome, environment, fence,
                   warnings, legacy, registry>>

\* Lines 130-144: what is left in lineBuffer after the stream's end.  The
\* catch of this parse is empty (lines 141-143).
ProcessRemnant(c) ==
    /\ call[c].pc = "remnant"
    /\ PublishLine(call[c], call[c].lineBuffer)
    /\ call' = [call EXCEPT ![c] =
           [AfterLine(call[c], call[c].lineBuffer) EXCEPT !.pc = "L147"]]
    /\ UNCHANGED <<isGenerating, generationComplete, isThinking,
                   stream, toasts, lastOutcome, environment, fence, warnings, legacy, registry>>

\* Lines 146-149.
EndThinking(c) ==
    /\ call[c].pc = "L147"
    /\ isThinking' = IF call[c].hasReceivedReasoning THEN FALSE ELSE isThinking
    /\ call' = [call EXCEPT ![c].pc = "L151"]
    /\ UNCHANGED <<generatedCode, isGenerating, generationComplete, thinkingOutput,
                   stream, toasts, lastOutcome, environment, fence, warnings, legacy, registry>>

\* A completion after which the call never reaches its finally block.
SetGenerationCompleteNoExit(c) ==
    /\ call[c].pc = "L151"
    /\ generationComplete' = TRUE
    /\ UNCHANGED <<generatedCode, isGenerating, thinkingOutput, isThinking,
                   call, stream, toasts, lastOutcome, environment, fence,
                   warnings, legacy, registry>>

\* Line 151.
SetGenerationComplete(c) ==
    /\ call[c].pc = "L151"
    /\ generationComplete' = TRUE
    /\ call' = [call EXCEPT ![c].pc = "finally"]
    /\ UNCHANGED <<generatedCode, isGenerating, thinkingOutput, isThinking,
                   stream, toasts, lastOutcome, environment, fence, warnings, legacy, registry>>

\* errorMessage.includes('Ollama'), errorMessage.includes('LM Studio')
MentionsOllama(message) ==
    message \in {"Cannot connect to Ollama. Is the server running?",
                 "Unsupported provider: Ollama",
                 "Ollama and LM Studio are not running"}
MentionsLMStudio(message) ==
    message \in {"Cannot connect to LM Studio. Is the server running?",
                 "Ollama and LM Studio are not running"}

\* A catch block that looks at the provider before it looks at the message.
ErrorToastProviderFirst(message, provider) ==
    IF provider \in {<<"deepseek">>, <<"openai_compatible">>}
    THEN "Make sure the Base URL and API Keys are correct in your .env.local file."
    ELSE IF MentionsOllama(message)
         THEN "Cannot connect to Ollama. Is the server running?"
         ELSE IF MentionsLMStudio(message)
              THEN "Cannot connect to LM Studio. Is the server running?"
              ELSE IF message # "" THEN message
                   ELSE "Error generating code. Please try again later."

\* The notification of the catch block (lines 154-167).
ErrorToast(message, provider) ==
    IF MentionsOllama(message)
    THEN "Cannot connect to Ollama. Is the server running?"
    ELSE IF MentionsLMStudio(message)
         THEN "Cannot connect to LM Studio. Is the server running?"
         ELSE IF provider \in {<<"deepseek">>, <<"openai_compatible">>}
              THEN "Make sure the Base URL and API Keys are correct in your .env.local file."
              ELSE IF message # "" THEN message
                   ELSE "Error generating code. Please try again later."

\* A catch block that rolls the published code back.
CatchRollback(c) ==
    /\ call[c].pc = "catch"
    /\ toasts' = Append(toasts, ErrorToast(call[c].error, call[c].args.provider))
    /\ generatedCode' = <<>>
    /\ call' = [call EXCEPT ![c].pc = "finally"]
    /\ UNCHANGED <<isGenerating, generationComplete, thinkingOutput,
                   isThinking, stream, lastOutcome, environment, fence,
                   warnings, legacy, registry>>

\* The catch block (lines 152-167).
Catch(c) ==
    /\ call[c].pc = "catch"
    /\ toasts' = Append(toasts, ErrorToast(call[c].error, call[c].args.provider))
    /\ call' = [call EXCEPT ![c].pc = "finally"]
    /\ UNCHANGED <<react, stream, lastOutcome, environment, fence, warnings, legacy, registry>>

\* A finally block that leaves the flag as it is.
FinallyNoRelease(c) ==
    /\ call[c].pc = "finally"
    /\ lastOutcome' = IF call[c].error = "" THEN "complete" ELSE "failed"
    /\ call' = [call EXCEPT ![c] = IdleCall]
    /\ stream' = [stream EXCEPT ![c] = NoStream]
    /\ UNCHANGED <<react, toasts, environment, fence, warnings, legacy, registry>>

\* The finally block (lines 168-170) and the return: the locals are gone,
\* the response stream is dropped.
Finally(c) ==
    /\ call[c].pc = "finally"
    /\ isGenerating' = FALSE
    /\ lastOutcome' = IF call[c].error = "" THEN "complete" ELSE "failed"
    /\ call' = [call EXCEPT ![c] = IdleCall]
    /\ stream' = [stream EXCEPT ![c] = NoStream]
    /\ UNCHANGED <<generatedCode, generationComplete, thinkingOutput, isThinking,
                   toasts, environment, fence, warnings, legacy, registry>>


\* ------------------------------------------------- the fence cleanup alone

FencePieces ==
    {Opener, Closer, <<BACKTICK>>, <<"x">>, <<NL>>}

\* Every string put together from at most MaxPieces pieces.
FenceInputs ==
    {Concat(ps) : ps \in UNION {[1..n -> FencePieces] : n \in 0..MaxPieces}}

CleanOnce ==
    /\ fenceStage = 0
    /\ fenceOnce' = FenceCleanup(fenceIn)
    /\ fenceStage' = 1
    /\ UNCHANGED <<react, call, stream, toasts, lastOutcome, environment,
                   fenceIn, fenceTwice, warnings, legacy, registry>>

CleanTwice ==
    /\ fenceStage = 1
    /\ fenceTwice' = FenceCleanup(fenceOnce)
    /\ fenceStage' = 2
    /\ UNCHANGED <<react, call, stream, toasts, lastOutcome, environment,
                   fenceIn, fenceOnce, warnings, legacy, registry>>

\* ------------------------------------------- the tag-based hook (part_000)

OpenTag == <<"<", "t", "h", "i", "n", "k", ">">>
CloseTag == <<"<", "/", "t", "h", "i", "n", "k", ">">>

\* s.indexOf(pat): the index, from 0, of the first occurrence, or -1.
Occurs(s, pat, i) ==
    /\ i + Len(pat) <= Len(s)
    /\ SubSeq(s, i + 1, i + Len(pat)) = pat
IndexOf(s, pat) ==
    IF \E i \in 0..Len(s) : Occurs(s, pat, i)
    THEN CHOOSE i \in 0..Len(s) :
             /\ Occurs(s, pat, i)
             /\ \A j \in 0..(i - 1) : ~Occurs(s, pat, j)
    ELSE -1

\* s.substring(from, to): the arguments are clamped to 0..length and swapped
\* when from is the larger.
Clamp(n, len) == IF n < 0 THEN 0 ELSE IF n > len THEN len ELSE n
Substring(s, from, to) ==
    LET a == Clamp(from, Len(s))
        b == Clamp(to, Len(s))
    IN  IF a <= b THEN SubSeq(s, a + 1, b) ELSE SubSeq(s, b + 1, a)
\* s.substring(from)
SubstringFrom(s, from) == Substring(s, from, Len(s))

\* receivedText += chunk, kept for the chunk alone.
AccumulateChunkOnly(received, chunk) == chunk

\* receivedText += chunk (line 91)
Accumulate(received, chunk) == received \o chunk

\* An extraction that, with both tags in the text, takes the text before
\* the opening tag into the reasoning.
ExtractThinkFromStart(l, text) ==
    LET thinkingStartIndex == IndexOf(text, OpenTag)
        thinkingEndIndex == IndexOf(text, CloseTag)
    IN  IF thinkingStartIndex # -1 /\ thinkingEndIndex # -1
        THEN [l EXCEPT
                 !.thinkingText = Substring(text, 0, thinkingEndIndex),
                 !.cleanedCode = SubstringFrom(text, thinkingEndIndex + 8),
                 !.isInThinkingBlock = FALSE,
                 !.isThinking = FALSE,
                 !.thinkingOutput = Substring(text, 0, thinkingEndIndex)]
        ELSE IF thinkingStartIndex # -1
             THEN [l EXCEPT
                      !.thinkingText =
                          SubstringFrom(text, thinkingStartIndex + 7),
                      !.cleanedCode = Substring(text, 0, thinkingStartIndex),
                      !.isInThinkingBlock = TRUE,
                      !.isThinking = IF l.isInThinkingBlock THEN @ ELSE TRUE,
                      !.thinkingOutput =
                          SubstringFrom(text, thinkingStartIndex + 7)]
             ELSE [l EXCEPT !.cleanedCode = text]

\* An extraction that leaves an open block in the text.
ExtractThinkLeaky(l, text) ==
    LET thinkingStartIndex == IndexOf(text, OpenTag)
        thinkingEndIndex == IndexOf(text, CloseTag)
    IN  IF thinkingStartIndex # -1 /\ thinkingEndIndex # -1
        THEN [l EXCEPT
                 !.thinkingText =
                     Substring(text, thinkingStartIndex + 7, thinkingEndIndex),
                 !.cleanedCode =
                     Substring(text, 0, thinkingStartIndex)
                         \o SubstringFrom(text, thinkingEndIndex + 8),
                 !.isInThinkingBlock = FALSE,
                 !.isThinking = FALSE,
                 !.thinkingOutput =
                     Substring(text, thinkingStartIndex + 7, thinkingEndIndex)]
        ELSE IF thinkingStartIndex # -1
             THEN [l EXCEPT
                      !.thinkingText =
                          SubstringFrom(text, thinkingStartIndex + 7),
                      !.cleanedCode = text,
                      !.isInThinkingBlock = TRUE,
                      !.isThinking = IF l.isInThinkingBlock THEN @ ELSE TRUE,
                      !.thinkingOutput =
                          SubstringFrom(text, thinkingStartIndex + 7)]
             ELSE [l EXCEPT !.cleanedCode = text]

\* Lines 93-121: the think-tag extraction over the text received so far.
\* l holds the locals and the published state before; the result holds
\* them after, cleanedCode as it is before the fence cleanup.
ExtractThink(l, text) ==
    LET thinkingStartIndex == IndexOf(text, OpenTag)
        thinkingEndIndex == IndexOf(text, CloseTag)
    IN  IF thinkingStartIndex # -1
        THEN IF thinkingEndIndex # -1
             THEN [l EXCEPT
                      !.thinkingText =
                          Substring(text, thinkingStartIndex + 7,
                                    thinkingEndIndex),
                      !.cleanedCode =
                          Substring(text, 0, thinkingStartIndex)
                              \o SubstringFrom(text, thinkingEndIndex + 8),
                      !.isInThinkingBlock = FALSE,
                      !.isThinking = FALSE,
                      !.thinkingOutput =
                          Substring(text, thinkingStartIndex + 7,
                                    thinkingEndIndex)]
             ELSE [l EXCEPT
                      !.thinkingText =
                          SubstringFrom(text, thinkingStartIndex + 7),
                      !.cleanedCode = Substring(text, 0, thinkingStartIndex),
                      !.isInThinkingBlock = TRUE,
                      !.isThinking = IF l.isInThinkingBlock THEN @ ELSE TRUE,
                      !.thinkingOutput =
                          SubstringFrom(text, thinkingStartIndex + 7)]
        ELSE IF l.isInThinkingBlock /\ thinkingEndIndex # -1
             THEN [l EXCEPT
                      !.thinkingText = Substring(text, 0, thinkingEndIndex),
                      !.cleanedCode =
                          SubstringFrom(text, thinkingEndIndex + 8),
                      !.isInThinkingBlock = FALSE,
                      !.isThinking = FALSE,
                      !.thinkingOutput = Substring(text, 0, thinkingEndIndex)]
             ELSE [l EXCEPT !.cleanedCode = text]

\* The locals of the read loop as declared (lines 79-81), the state of the
\* hook as constructed, and n reads to come.
LegacyCall(n) ==
    [receivedText |-> <<>>, thinkingText |-> <<>>,
     isInThinkingBlock |-> FALSE, cleanedCode |-> <<>>,
     generatedCode |-> <<>>, thinkingOutput |-> <<>>, isThinking |-> FALSE,
     feeds |-> <<>>, readsLeft |-> n]

\* The chunks reader.read() may yield: a whole block with text after it and
\* with text on both sides, a block opened and a block closed, the same with
\* the closing tag cut in two, plain text, and each tag alone.
ThinkChunks ==
    {OpenTag \o <<"a">> \o CloseTag \o <<"b">>,
     <<"p">> \o OpenTag \o <<"a">> \o CloseTag \o <<"b">>,
     OpenTag \o <<"a">>,
     <<"b">> \o CloseTag \o <<"c">>,
     OpenTag \o <<"<", "/", "t", "h", "i">>,
     <<"n", "k", ">">> \o CloseTag \o <<"c">>,
     <<"x">>, OpenTag, CloseTag}

\* One turn of the read loop with a chunk (lines 84-126).
LegacyRead ==
    /\ legacy.readsLeft > 0
    /\ \E chunk \in ThinkChunks :
          LET text == Accumulate(legacy.receivedText, chunk)
              after == ExtractThink(legacy, text)
          IN  legacy' = [after EXCEPT
                  !.receivedText = text,
                  !.generatedCode = FenceCleanup(after.cleanedCode),
                  !.feeds = Append(@, chunk),
                  !.readsLeft = @ - 1]
    /\ UNCHANGED <<react, call, stream, toasts, lastOutcome, environment,
                   fence, warnings, registry>>

\* ------------------------------------------ the provider catalog (config.ts)

\* A JavaScript value that is undefined, null or a string.
Undefined == [tag |-> "undefined", text |-> <<>>]
Null == [tag |-> "null", text |-> <<>>]
Str(t) == [tag |-> "string", text |-> t]

\* Truthiness of such a value: a string is truthy unless it is empty.
Truthy(v) == v.tag = "string" /\ v.text # <<>>

\* v?.trim()
OptionalTrim(v) == IF v.tag = "string" THEN Str(Trim(v.text)) ELSE Undefined

\* enum LLMProvider, in declaration order.
LLMProvider ==
    <<"deepseek", "openrouter", "anthropic", "google", "mistral", "cerebras",
      "openai_compatible", "ollama", "lm_studio">>

LLMProviderValues == {LLMProvider[i] : i \in DOMAIN LLMProvider}

\* One entry of PROVIDER_CONFIGS; an apiKeyEnvVar of "null" is the null of
\* the two local providers.
ProviderConfig(id, baseUrlEnvVar, apiKeyEnvVar, defaultBaseUrl, isLocal) ==
    [id |-> id, baseUrlEnvVar |-> baseUrlEnvVar, apiKeyEnvVar |-> apiKeyEnvVar,
     defaultBaseUrl |-> defaultBaseUrl, isLocal |-> isLocal]

PROVIDER_CONFIGS ==
    [p \in LLMProviderValues |->
        CASE p = "deepseek" ->
                 ProviderConfig(p, "DEEPSEEK_API_BASE", "DEEPSEEK_API_KEY",
                                <<"https://api.deepseek.com/v1">>, FALSE)
          [] p = "openrouter" ->
                 ProviderConfig(p, "OPENROUTER_API_BASE", "OPENROUTER_API_KEY",
                                <<"https://openrouter.ai/api/v1">>, FALSE)
          [] p = "anthropic" ->
                 ProviderConfig(p, "ANTHROPIC_API_BASE", "ANTHROPIC_API_KEY",
                                <<"https://api.anthropic.com/v1">>, FALSE)
          [] p = "google" ->
                 ProviderConfig(p, "GOOGLE_API_BASE",
                                "GOOGLE_GENERATIVE_AI_API_KEY",
                                <<"https://generativelanguage.googleapis.com/v1beta">>,
                                FALSE)
          [] p = "mistral" ->
                 ProviderConfig(p, "MISTRAL_API_BASE", "MISTRAL_API_KEY",
                                <<"https://api.mistral.ai/v1">>, FALSE)
          [] p = "cerebras" ->
                 ProviderConfig(p, "CEREBRAS_API_BASE", "CEREBRAS_API_KEY",
                                <<"https://api.cerebras.ai/v1">>, FALSE)
          [] p = "openai_compatible" ->
                 ProviderConfig(p, "OPENAI_COMPATIBLE_API_BASE",
                                "OPENAI_COMPATIBLE_API_KEY", <<>>, FALSE)
          [] p = "ollama" ->
                 ProviderConfig(p, "OLLAMA_API_BASE", "null",
                                <<"http://localhost:11434">>, TRUE)
          [] p = "lm_studio" ->
                 ProviderConfig(p, "LM_STUDIO_API_BASE", "null",
                                <<"http://localhost:1234/v1">>, TRUE)]

\* The names process.env is read under, and one the code never reads.
EnvNames ==
    {PROVIDER_CONFIGS[p].baseUrlEnvVar : p \in LLMProviderValues}
    \cup ({PROVIDER_CONFIGS[p].apiKeyEnvVar : p \in LLMProviderValues}
              \ {"null"})
    \cup {"DISABLED_PROVIDERS", "OPENAI_COMPATIBLE_MODEL", "DEFAULT_PROVIDER",
          "OLLAMA_API_KEY"}

\* process.env[name]
ProcessEnv(name) == IF name \in DOMAIN env THEN env[name] ELSE Undefined

\* getProviderConfig: the property read PROVIDER_CONFIGS[provider], which
\* gives undefined for a key the object does not have.
NoConfig == [id |-> "undefined"]
getProviderConfig(provider) ==
    IF provider \in DOMAIN PROVIDER_CONFIGS
    THEN PROVIDER_CONFIGS[provider]
    ELSE NoConfig

\* getProviderBaseUrl (lines 119-122), for a provider of the catalog.
getProviderBaseUrlNoDefault(provider) ==
    LET config == getProviderConfig(provider)
    IN  ProcessEnv(config.baseUrlEnvVar).text

getProviderBaseUrl(provider) ==
    LET config == getProviderConfig(provider)
    IN  IF Truthy(ProcessEnv(config.baseUrlEnvVar))
        THEN ProcessEnv(config.baseUrlEnvVar).text
        ELSE config.defaultBaseUrl

\* getProviderApiKey (lines 125-129), for a provider of the catalog.
getProviderApiKey(provider) ==
    LET config == getProviderConfig(provider)
    IN  IF config.apiKeyEnvVar = "null" THEN Null
        ELSE IF Truthy(ProcessEnv(config.apiKeyEnvVar))
             THEN ProcessEnv(config.apiKeyEnvVar)
             ELSE Null

\* String.prototype.split(sep) for a one-character separator: the pieces
\* between the separators, in order, empty pieces included.
RECURSIVE Split(_, _)
Split(s, sep) ==
    IF \E i \in 1..Len(s) : s[i] = sep
    THEN LET i == CHOOSE k \in 1..Len(s) :
                      s[k] = sep /\ \A j \in 1..(k - 1) : s[j] # sep
         IN  <<SubSeq(s, 1, i - 1)>> \o Split(SubSeq(s, i + 1, Len(s)), sep)
    ELSE <<s>>

\* getDisabledProviders without the trim of the entries.
getDisabledProvidersUntrimmed ==
    LET disabled == OptionalTrim(ProcessEnv("DISABLED_PROVIDERS"))
    IN  IF ~Truthy(disabled) THEN <<>>
        ELSE Split(disabled.text, ",")

\* getDisabledProviders (lines 132-136).
getDisabledProviders ==
    LET disabled == OptionalTrim(ProcessEnv("DISABLED_PROVIDERS"))
    IN  IF ~Truthy(disabled) THEN <<>>
        ELSE LET entries == Split(disabled.text, ",")
             IN  [i \in DOMAIN entries |-> Trim(entries[i])]

\* Array.prototype.includes for a provider id among entries: an id is one
\* token of the text.
IncludesProvider(entries, provider) ==
    \E i \in DOMAIN entries : entries[i] = <<provider>>

\* isProviderConfigured (lines 139-160), for a provider of the catalog.
isProviderConfigured(provider) ==
    LET config == getProviderConfig(provider)
    IN  IF IncludesProvider(getDisabledProviders, provider) THEN FALSE
        ELSE IF config.isLocal THEN TRUE
        ELSE IF provider = "openai_compatible"
             THEN LET hasBaseUrl ==
                          Truthy(OptionalTrim(ProcessEnv(config.baseUrlEnvVar)))
                      hasApiKey ==
                          Truthy(OptionalTrim(ProcessEnv(config.apiKeyEnvVar)))
                  IN  hasBaseUrl /\ hasApiKey
             ELSE IF config.apiKeyEnvVar = "null" THEN FALSE
                  ELSE Truthy(OptionalTrim(ProcessEnv(config.apiKeyEnvVar)))

\* Object.values(PROVIDER_CONFIGS): the entries in the order of their keys'
\* insertion, which is the order of the declaration.
ObjectValues == [i \in DOMAIN LLMProvider |-> PROVIDER_CONFIGS[LLMProvider[i]]]

\* getAvailableProviders without the filter.
getAvailableProvidersUnfiltered == ObjectValues

\* getAvailableProviders (lines 163-167).
getAvailableProviders ==
    SelectSeq(ObjectValues, LAMBDA config : isProviderConfigured(config.id))

\* --------------------------------------- the provider clients (provider.ts)

\* What a call gives back: a value, or an Error with a message. A message is
\* the sequence of its words and marks.
Returns(value) == [kind |-> "returns", value |-> value]
Throws(message) == [kind |-> "throws", value |-> message]

\* a || b
Or(a, b) == IF Truthy(a) THEN a ELSE b

\* What the network does with one fetch: the call rejects, or a response
\* comes back with a status and a body. The body parses as JSON or not, and
\* carries a list under "data", under "models", or under neither.
Rejects == [kind |-> "rejects"]
Body(key, items) == [parses |-> TRUE, key |-> key, items |-> items]
Malformed == [parses |-> FALSE, key |-> "none", items |-> <<>>]
Response(ok, statusText, body) ==
    [kind |-> "response", ok |-> ok, statusText |-> statusText, body |-> body]

\* One model of a listing, with the fields the clients read.
Entry(id, name, display_name, displayName) ==
    [id |-> id, name |-> name, display_name |-> display_name,
     displayName |-> displayName]

Listed(id, name) == [id |-> id, name |-> name]

\* s.replace(tok, ''): the first occurrence taken out.
RemoveFirst(s, tok) ==
    IF \E i \in 1..Len(s) : s[i] = tok
    THEN LET i == CHOOSE k \in 1..Len(s) :
                      s[k] = tok /\ \A j \in 1..(k - 1) : s[j] # tok
         IN  SubSeq(s, 1, i - 1) \o SubSeq(s, i + 1, Len(s))
    ELSE s

\* The list a client makes of a parsed body (the lines after
\* `await response.json()` of each getModels).
MapModels(provider, body) ==
    LET items == body.items
        mapped(f(_)) == Returns([i \in DOMAIN items |-> f(items[i])])
    IN  CASE provider \in {"openrouter", "mistral"} ->
                 IF body.key # "data" THEN Returns(<<>>)
                 ELSE mapped(LAMBDA m : Listed(m.id, Or(m.name, m.id)))
          [] provider = "anthropic" ->
                 IF body.key # "data" THEN Returns(<<>>)
                 ELSE mapped(LAMBDA m : Listed(m.id, Or(m.display_name, m.id)))
          [] provider = "google" ->
                 IF body.key # "models" THEN Returns(<<>>)
                 ELSE IF \E i \in DOMAIN items : items[i].name.tag # "string"
                      THEN Throws(<<"TypeError">>)
                      ELSE LET gemini == SelectSeq(items, LAMBDA m :
                                   \E k \in DOMAIN m.name.text :
                                       m.name.text[k] = "gemini")
                               id(m) == Str(RemoveFirst(m.name.text, "models/"))
                           IN  Returns([i \in DOMAIN gemini |->
                                   Listed(id(gemini[i]),
                                          Or(gemini[i].displayName,
                                             id(gemini[i])))])
          [] provider \in {"cerebras", "openai_compatible", "lm_studio"} ->
                 IF body.key # "data" THEN Returns(<<>>)
                 ELSE mapped(LAMBDA m : Listed(m.id, m.id))
          [] provider = "ollama" ->
                 IF body.key # "models" THEN Returns(<<>>)
                 ELSE mapped(LAMBDA m : Listed(m.name, m.name))

\* The name a client puts in its messages.
ClientName(provider) ==
    CASE provider = "openrouter" -> <<"OpenRouter">>
      [] provider = "anthropic" -> <<"Anthropic">>
      [] provider = "google" -> <<"Google", "AI">>
      [] provider = "mistral" -> <<"Mistral">>
      [] provider = "cerebras" -> <<"Cerebras">>
      [] provider = "openai_compatible" -> <<>>
      [] provider = "ollama" -> <<"Ollama">>
      [] provider = "lm_studio" -> <<"LM", "Studio">>

\* The body of the try block of a getModels that fetches: the throw on a
\* response that is not ok, the parse, the mapping.
TryGetModels(provider, net) ==
    IF net.kind = "rejects" THEN Throws(<<"fetch", "failed">>)
    ELSE IF ~net.ok
         THEN Throws(<<"Error", "fetching">> \o ClientName(provider)
                         \o <<"models", ":", net.statusText>>)
         ELSE IF ~net.body.parses THEN Throws(<<"SyntaxError">>)
              ELSE MapModels(provider, net.body)

\* The message of the Error the catch block of a getModels throws.
CatchMessage(provider) ==
    IF provider \in {"ollama", "lm_studio"}
    THEN <<"Cannot", "connect", "to">> \o ClientName(provider)
             \o <<".", "Is", "the", "server", "running", "?">>
    ELSE IF provider = "openai_compatible"
         THEN <<"Cannot", "fetch", "models", ".", "Check", "your", "API",
                "configuration", ".">>
         ELSE <<"Cannot", "fetch">> \o ClientName(provider)
                  \o <<"models", ".", "Check", "your", "API", "key", ".">>

\* A getModels whose catch block returns an empty list.
FetchModelsSwallowing(provider, net) ==
    IF TryGetModels(provider, net).kind = "throws"
    THEN Returns(<<>>)
    ELSE TryGetModels(provider, net)

\* try { ... } catch (error) { console.error(...); throw new Error(...) }
FetchModels(provider, net) ==
    IF TryGetModels(provider, net).kind = "throws"
    THEN Throws(CatchMessage(provider))
    ELSE TryGetModels(provider, net)

\* DeepSeekProviderClient.getModels (lines 105-111).
DeepSeekModels ==
    <<Listed(Str(<<"deepseek-chat">>), Str(<<"DeepSeek", "Chat">>)),
      Listed(Str(<<"deepseek-reasoner">>), Str(<<"DeepSeek", "Reasoner">>))>>

\* A getModels that never looks at OPENAI_COMPATIBLE_MODEL.
getModelsNoOverride(provider, net) ==
    IF provider = "deepseek"
    THEN [result |-> Returns(DeepSeekModels), fetched |-> FALSE]
    ELSE [result |-> FetchModels(provider, net), fetched |-> TRUE]

\* getModels of the client createProviderClient gives for a provider of the
\* catalog, with what the network does when the client fetches; `fetched`
\* tells whether it did.
getModels(provider, net) ==
    LET envModel == ProcessEnv("OPENAI_COMPATIBLE_MODEL")
    IN  IF provider = "deepseek"
        THEN [result |-> Returns(DeepSeekModels), fetched |-> FALSE]
        ELSE IF provider = "openai_compatible" /\ Truthy(envModel)
             THEN [result |-> Returns(<<Listed(envModel, envModel)>>),
                   fetched |-> FALSE]
             ELSE [result |-> FetchModels(provider, net), fetched |-> TRUE]

\* createProviderClient (lines 76-99): the class of the client, or the throw
\* of the default branch.
createProviderClient(provider) ==
    CASE provider = "deepseek" -> Returns("DeepSeekProviderClient")
      [] provider = "openrouter" -> Returns("OpenRouterProviderClient")
      [] provider = "anthropic" -> Returns("AnthropicProviderClient")
      [] provider = "google" -> Returns("GoogleProviderClient")
      [] provider = "mistral" -> Returns("MistralProviderClient")
      [] provider = "cerebras" -> Returns("CerebrasProviderClient")
      [] provider = "openai_compatible" ->
             Returns("OpenAICompatibleProviderClient")
      [] provider = "ollama" -> Returns("OllamaProviderClient")
      [] provider = "lm_studio" -> Returns("LMStudioProviderClient")
      [] OTHER -> Throws(<<"Unsupported", "provider", ":", provider>>)

\* ------------------------------------ the earlier provider clients (part_005)

\* new Map(data.map(m => [m.id, m])) and its values: one entry per id, at the
\* place of the id's first occurrence.
RECURSIVE UniqueIds(_)
UniqueIds(ids) ==
    IF ids = <<>> THEN <<>>
    ELSE LET front == UniqueIds(SubSeq(ids, 1, Len(ids) - 1))
             last == ids[Len(ids)]
         IN  IF \E i \in DOMAIN front : front[i] = last
             THEN front
             ELSE Append(front, last)

\* this.client.models.list() of the OpenAI client, and the mapping of its
\* page (lines 52-62): the client's error leaves getModels as it is.
ListWithClient(net) ==
    IF net.kind = "rejects" THEN Throws(<<"Connection", "error", ".">>)
    ELSE IF ~net.ok THEN Throws(<<net.statusText>>)
    ELSE IF ~net.body.parses \/ net.body.key # "data"
         THEN Throws(<<"TypeError">>)
         ELSE LET ids == UniqueIds([i \in DOMAIN net.body.items |->
                                       net.body.items[i].id])
              IN  Returns([i \in DOMAIN ids |-> Listed(ids[i], ids[i])])

\* getModels of OpenAICompatibleProvider (lines 42-63), the client of
\* deepseek and openai_compatible, and of OllamaProvider (lines 105-121).
legacyGetModels(provider, net) ==
    LET envModel == ProcessEnv("OPENAI_COMPATIBLE_MODEL")
    IN  IF provider = "ollama"
        THEN [result |-> FetchModels("ollama", net), fetched |-> TRUE]
        ELSE IF provider = "openai_compatible" /\ Truthy(envModel)
             THEN [result |-> Returns(<<Listed(envModel, envModel)>>),
                   fetched |-> FALSE]
             ELSE [result |-> ListWithClient(net), fetched |-> TRUE]

\* ------------------------------------------------- calls into the registry

NoReply == [op |-> "none"]

\* The models a backend may list.
Entries ==
    {Entry(Str(<<"m1">>), Str(<<"M1">>), Undefined, Undefined),
     Entry(Str(<<"m2">>), Undefined, Str(<<"M2">>), Undefined),
     Entry(Str(<<"models/", "gemini", "-pro">>),
           Str(<<"models/", "gemini", "-pro">>), Undefined,
           Str(<<"Gemini">>))}

ListedBodies ==
    {Body(key, items) :
        key \in {"data", "models"},
        items \in {<<>>}
                  \cup {<<e>> : e \in Entries}
                  \cup {<<e, e>> : e \in Entries}}

\* What the network may do with a fetch of a listing.
NetOutcomes ==
    {Rejects}
    \cup {Response(FALSE, statusText, Malformed) :
              statusText \in {"Unauthorized", "Not Found"}}
    \cup {Response(TRUE, "OK", body) :
              body \in ListedBodies \cup {Malformed, Body("none", <<>>)}}

\* client.getModels() on the client of a provider of the catalog.
GetModelsCall ==
    /\ reply = NoReply
    /\ \E provider \in LLMProviderValues, net \in NetOutcomes :
          reply' = [op |-> "getModels", provider |-> provider, net |-> net,
                    result |-> getModels(provider, net).result,
                    fetched |-> getModels(provider, net).fetched]
    /\ UNCHANGED <<react, call, stream, toasts, lastOutcome, environment,
                   fence, warnings, legacy, env, view, ollama>>

\* The same on a client of part_005.
LegacyGetModelsCall ==
    /\ reply = NoReply
    /\ \E provider \in {"deepseek", "openai_compatible", "ollama"},
          net \in NetOutcomes :
          reply' = [op |-> "legacyGetModels", provider |-> provider,
                    net |-> net,
                    result |-> legacyGetModels(provider, net).result,
                    fetched |-> legacyGetModels(provider, net).fetched]
    /\ UNCHANGED <<react, call, stream, toasts, lastOutcome, environment,
                   fence, warnings, legacy, env, view, ollama>>

\* Ids that are no member of LLMProvider.
UnknownIds == {"ollama2", "OLLAMA"}

\* What reading a property of getProviderConfig's result does for an id
\* outside the catalog: the result is undefined and the read throws.
ConfigOf(provider, value) ==
    IF getProviderConfig(provider) = NoConfig
    THEN Throws(<<"TypeError">>)
    ELSE Returns(value)

GetProviderConfigCall ==
    /\ reply = NoReply
    /\ \E provider \in LLMProviderValues \cup UnknownIds :
          reply' = [op |-> "getProviderConfig", provider |-> provider,
                    result |-> Returns(getProviderConfig(provider))]
    /\ UNCHANGED <<react, call, stream, toasts, lastOutcome, environment,
                   fence, warnings, legacy, env, view, ollama>>

GetProviderBaseUrlCall ==
    /\ reply = NoReply
    /\ \E provider \in LLMProviderValues \cup UnknownIds :
          reply' = [op |-> "getProviderBaseUrl", provider |-> provider,
                    result |-> ConfigOf(provider,
                                        getProviderBaseUrl(provider))]
    /\ UNCHANGED <<react, call, stream, toasts, lastOutcome, environment,
                   fence, warnings, legacy, env, view, ollama>>

GetProviderApiKeyCall ==
    /\ reply = NoReply
    /\ \E provider \in LLMProviderValues \cup UnknownIds :
          reply' = [op |-> "getProviderApiKey", provider |-> provider,
                    result |-> ConfigOf(provider,
                                        getProviderApiKey(provider))]
    /\ UNCHANGED <<react, call, stream, toasts, lastOutcome, environment,
                   fence, warnings, legacy, env, view, ollama>>

IsProviderConfiguredCall ==
    /\ reply = NoReply
    /\ \E provider \in LLMProviderValues :
          reply' = [op |-> "isProviderConfigured", provider |-> provider,
                    result |-> Returns(isProviderConfigured(provider))]
    /\ UNCHANGED <<react, call, stream, toasts, lastOutcome, environment,
                   fence, warnings, legacy, env, view, ollama>>

GetAvailableProvidersCall ==
    /\ reply = NoReply
    /\ reply' = [op |-> "getAvailableProviders", provider |-> "",
                 result |-> Returns(getAvailableProviders)]
    /\ UNCHANGED <<react, call, stream, toasts, lastOutcome, environment,
                   fence, warnings, legacy, env, view, ollama>>

CreateProviderClientCall ==
    /\ reply = NoReply
    /\ \E provider \in LLMProviderValues \cup UnknownIds :
          reply' = [op |-> "createProviderClient", provider |-> provider,
                    result |-> createProviderClient(provider)]
    /\ UNCHANGED <<react, call, stream, toasts, lastOutcome, environment,
                   fence, warnings, legacy, env, view, ollama>>

\* ----------------------------- from the hook's request to the model's call

\* The prompts route.ts imports from '@/lib/providers/prompts' and the one of
\* provider.ts, each a text of its own that is not empty.
DEFAULT_SYSTEM_PROMPT == Str(<<"DEFAULT_SYSTEM_PROMPT">>)
THINKING_SYSTEM_PROMPT == Str(<<"THINKING_SYSTEM_PROMPT">>)
SYSTEM_PROMPT == Str(<<"SYSTEM_PROMPT">>)

\* A hook that forwards the custom prompt under every mode.
finalCustomSystemPromptAlways(systemPromptType, customSystemPrompt) ==
    customSystemPrompt

\* part_001:45-51: what the hook puts in the body as customSystemPrompt.
finalCustomSystemPrompt(systemPromptType, customSystemPrompt) ==
    IF systemPromptType = Str(<<"custom">>)
    THEN customSystemPrompt
    ELSE Null

\* route.ts:32-42.
finalSystemPrompt(systemPromptType, customSystemPrompt) ==
    IF Truthy(customSystemPrompt) THEN customSystemPrompt
    ELSE IF systemPromptType = Str(<<"thinking">>)
         THEN THINKING_SYSTEM_PROMPT
         ELSE DEFAULT_SYSTEM_PROMPT

\* route.ts:22-30: the provider the route goes on with, as an id.
SelectProvider(providerParam) ==
    IF Truthy(providerParam) /\ Len(providerParam.text) = 1
           /\ providerParam.text[1] \in LLMProviderValues
    THEN providerParam.text[1]
    ELSE IF Truthy(ProcessEnv("DEFAULT_PROVIDER"))
         THEN IF Len(ProcessEnv("DEFAULT_PROVIDER").text) = 1
              THEN ProcessEnv("DEFAULT_PROVIDER").text[1]
              ELSE "other"
         ELSE "deepseek"

\* generateCodeStream (provider.ts:379-397): the throw of createProviderClient,
\* or the provider and the system prompt streamText is called with.
generateCodeStream(provider, systemPrompt) ==
    IF createProviderClient(provider).kind = "throws"
    THEN createProviderClient(provider)
    ELSE Returns([client |-> createProviderClient(provider).value,
                  system |-> Or(systemPrompt, SYSTEM_PROMPT)])

\* What the caller of the hook may pass (part_002:44-66).
SystemPromptTypes ==
    {Str(<<"default">>), Str(<<"thinking">>), Str(<<"custom">>), Str(<<>>)}
CustomSystemPrompts ==
    {Undefined, Str(<<>>), Str(<<" ">>), Str(<<"Be", " ", "terse">>)}
ProviderParams ==
    {Str(<<"deepseek">>), Str(<<"lm_studio">>), Str(<<"ollama2">>),
     Str(<<" ">>)}

\* One valid request of the hook, from its fetch (part_001:53-66) through
\* the route (route.ts:9-51) to the call of streamText.
PostGenerateCode ==
    /\ reply = NoReply
    /\ \E systemPromptType \in SystemPromptTypes,
          customSystemPrompt \in CustomSystemPrompts,
          providerParam \in ProviderParams :
          reply' = [op |-> "POST",
                    systemPromptType |-> systemPromptType,
                    customSystemPrompt |-> customSystemPrompt,
                    provider |-> providerParam,
                    result |-> generateCodeStream(
                        SelectProvider(providerParam),
                        finalSystemPrompt(
                            systemPromptType,
                            finalCustomSystemPrompt(systemPromptType,
                                                    customSystemPrompt)))]
    /\ UNCHANGED <<react, call, stream, toasts, lastOutcome, environment,
                   fence, warnings, legacy, env, view, ollama>>

\* ------------------------------------------- the catch block on its own

\* Messages an Error may carry: those of the provider clients, of
\* createProviderClient, of the hook itself and of the browser, one that
\* names both local backends, and none.
ErrorMessages ==
    {"Cannot connect to Ollama. Is the server running?",
     "Cannot connect to LM Studio. Is the server running?",
     "Ollama and LM Studio are not running",
     "Unsupported provider: Ollama",
     "Unsupported provider: ollama2",
     "HTTP error! status: 500", "Failed to fetch", "network error", ""}

ToastProviders ==
    {<<"deepseek">>, <<"openai_compatible">>, <<"ollama">>, <<"lm_studio">>,
     <<"anthropic">>}

\* The catch block (part_001:152-167) entered with an Error of a given
\* message, in a call for a given provider; it is looked at in place of a
\* request of the run.
ClassifyError ==
    /\ reply = NoReply
    /\ requestsLeft > 0
    /\ NoCallActive
    /\ requestsLeft' = requestsLeft - 1
    /\ \E message \in ErrorMessages, provider \in ToastProviders :
          reply' = [op |-> "catch", message |-> message,
                    provider |-> provider,
                    toast |-> ErrorToast(message, provider)]
    /\ UNCHANGED <<react, call, stream, toasts, lastOutcome, deltaPool,
                   argPool, fence, warnings, legacy, env, view, ollama>>

\* ------------------------------------ the page around the hook (part_002/004)

\* The calls one hook instance can hold side by side: generateCode keeps no
\* request id and aborts nothing, so a second call runs next to the first.
HookSlots == 1..(MaxSlots + 1)

\* What handleSendNewPrompt last did: nothing yet.
NoSend == [op |-> "none"]

\* Home as loaded: showGenerationView false (part_002), and the generation
\* view's newPrompt "" (part_004:60).
WelcomeView == [showGenerationView |-> FALSE, newPrompt |-> <<>>, sent |-> NoSend]

\* Some call is between two awaits: generateCode awaits fetch (line 53) and
\* reader.read() (line 91) only, and what lies between them runs to its end
\* before any event handler does; the state updates of lines 39-43 are
\* rendered before the next event.
InEventHandler ==
    \E c \in HookSlots : call[c].pc \notin {"idle", "fetch", "read"}

\* The first free slot of the hook.
FreeSlot(c) ==
    /\ call[c].pc = "idle"
    /\ \A d \in HookSlots : d < c => call[d].pc # "idle"

\* generateCode called by a caller that checks nothing first, as
\* Home.handleRegenerateWithNewPrompt does (part_002:54-66): the hook itself
\* starts on whatever it is given, whether or not an earlier call still runs.
GenerateCodeUnserialized(c) ==
    /\ ~InEventHandler
    /\ requestsLeft > 0
    /\ FreeSlot(c)
    /\ requestsLeft' = requestsLeft - 1
    /\ \E a \in argPool : Validate(c, a)
    /\ UNCHANGED <<react, stream, deltaPool, argPool, fence, warnings, legacy,
                   registry>>

\* Home.handleGenerate (part_002:41-51), the welcome view's trigger: the
\* generation view takes the welcome view's place, then generateCode runs.
HandleGenerate(c) ==
    /\ ~view.showGenerationView
    /\ ~InEventHandler
    /\ requestsLeft > 0
    /\ FreeSlot(c)
    /\ view' = [view EXCEPT !.showGenerationView = TRUE]
    /\ requestsLeft' = requestsLeft - 1
    /\ \E a \in argPool : Validate(c, a)
    /\ UNCHANGED <<react, stream, deltaPool, argPool, fence, warnings, legacy,
                   env, reply, ollama>>

\* onChange of the new prompt's textarea (generation-panels.tsx:164-169).
\* The disabled attributes of the textarea and of the send button are left
\* out: the handler below is run against every caller.
SetNewPrompt(text) ==
    /\ view.showGenerationView
    /\ ~InEventHandler
    /\ view' = [view EXCEPT !.newPrompt = text]
    /\ UNCHANGED <<react, call, stream, toasts, lastOutcome, environment,
                   fence, warnings, legacy, env, reply, ollama>>

\* A guard that looks at the prompt only.
SendReturnsAtOnceWhenBlank(newPrompt, generating) == Trim(newPrompt) = <<>>

\* part_004:178: if (!newPrompt.trim() || isGenerating) return
SendReturnsAtOnce(newPrompt, generating) ==
    Trim(newPrompt) = <<>> \/ generating

\* GenerationView.handleSendNewPrompt (part_004:177-181), called by the send
\* button and by Enter in the textarea (generation-panels.tsx:70-75, 174):
\* onRegenerateWithNewPrompt(newPrompt), which is
\* Home.handleRegenerateWithNewPrompt (part_002:54-66) and calls generateCode
\* with the new prompt, then setNewPrompt("").
HandleSendNewPrompt(c) ==
    /\ view.showGenerationView
    /\ ~InEventHandler
    /\ FreeSlot(c)
    /\ IF SendReturnsAtOnce(view.newPrompt, isGenerating)
       THEN /\ view' = [view EXCEPT !.sent =
                   [op |-> "send", newPrompt |-> view.newPrompt,
                    isGenerating |-> isGenerating, called |-> FALSE,
                    kept |-> view.newPrompt]]
            /\ UNCHANGED <<call, toasts, lastOutcome, requestsLeft>>
       ELSE /\ requestsLeft > 0
            /\ requestsLeft' = requestsLeft - 1
            /\ \E a \in argPool :
                   Validate(c, [a EXCEPT !.prompt = view.newPrompt])
            /\ view' = [view EXCEPT
                   !.newPrompt = <<>>,
                   !.sent = [op |-> "send", newPrompt |-> view.newPrompt,
                             isGenerating |-> isGenerating, called |-> TRUE,
                             kept |-> <<>>]]
    /\ UNCHANGED <<react, stream, deltaPool, argPool, fence, warnings, legacy,
                   env, reply, ollama>>

\* ------------------------------------- the tag-based hook, call after call

\* A call whose locals are the hook's and outlive the call.
LegacyGenerateCodeKeepingLocals ==
    /\ requestsLeft > 0
    /\ requestsLeft' = requestsLeft - 1
    /\ legacy' = [legacy EXCEPT
           !.generatedCode = <<>>,
           !.thinkingOutput = <<>>,
           !.isThinking = FALSE,
           !.feeds = <<>>]
    /\ reply' = [op |-> "generateCode", before |-> legacy]
    /\ UNCHANGED <<react, call, stream, toasts, lastOutcome, deltaPool,
                   argPool, fence, warnings, env, view, ollama>>

\* generateCode of part_000 called again, the call before being over (its
\* stream done, or failed at any read): the state is reset (lines 32-36) and
\* receivedText, thinkingText and isInThinkingBlock are declared anew (lines
\* 79-81).  The reads still to come are those the call before has left; reply
\* keeps what the call before held when it was over.
LegacyGenerateCode ==
    /\ requestsLeft > 0
    /\ requestsLeft' = requestsLeft - 1
    /\ legacy' = LegacyCall(legacy.readsLeft)
    /\ reply' = [op |-> "generateCode", before |-> legacy]
    /\ UNCHANGED <<react, call, stream, toasts, lastOutcome, deltaPool,
                   argPool, fence, warnings, env, view, ollama>>

\* ------------------------------- the Ollama generation adapter (part_005)

\* No call of the adapter.
NoOllama == [state |-> "none"]

\* "response": with the brace before it, the start of a line of Ollama's
\* /api/generate stream.
ResponseKey == "\"response\":"

\* A line of the upstream body: {"response":"..."}
OllamaLine(response) ==
    <<"{", ResponseKey, QUOTE>> \o JsonEscape(response) \o <<QUOTE, "}">>

\* The upstream body of the responses rs: a JSON object a line.
RECURSIVE OllamaBody(_)
OllamaBody(rs) ==
    IF rs = <<>> THEN <<>>
    ELSE OllamaLine(Head(rs)) \o <<NL>> \o OllamaBody(Tail(rs))

\* JSON.parse(line) and data.response (lines 173-174):
\*   kind "object": an object, response its response field;
\*   kind "other":  valid JSON with no response field (a string literal);
\*   kind "error":  JSON.parse throws.
OllamaParse(line) ==
    LET t == Trim(line)
        n == Len(t)
    IN  IF /\ n >= 5
           /\ t[1] = "{"
           /\ t[2] = ResponseKey
           /\ t[3] = QUOTE
           /\ t[n - 1] = QUOTE
           /\ t[n] = "}"
           /\ JsonStringBodyOk(SubSeq(t, 4, n - 2))
           /\ \A i \in 4..(n - 2) : t[i] \notin {ResponseKey, "{", "}"}
        THEN [kind |-> "object", response |-> JsonUnescape(SubSeq(t, 4, n - 2))]
        ELSE IF /\ n >= 2
                /\ t[1] = QUOTE
                /\ t[n] = QUOTE
                /\ JsonStringBodyOk(SubSeq(t, 2, n - 1))
                /\ \A i \in 2..(n - 1) : t[i] \notin {ResponseKey, "{", "}"}
             THEN [kind |-> "other", response |-> <<>>]
             ELSE [kind |-> "error", response |-> <<>>]

\* chunk.split('\n').filter(line => line.trim()) (line 170)
RECURSIVE NonBlankLines(_)
NonBlankLines(ls) ==
    IF ls = <<>> THEN <<>>
    ELSE IF Trim(Head(ls)) = <<>> THEN NonBlankLines(Tail(ls))
         ELSE <<Head(ls)>> \o NonBlankLines(Tail(ls))

\* for (const line of lines) (lines 172-177): what is enqueued up to the
\* first line JSON.parse throws on, and whether it threw.
RECURSIVE EnqueuedOfLines(_)
EnqueuedOfLines(ls) ==
    IF ls = <<>> THEN [enqueued |-> <<>>, threw |-> FALSE]
    ELSE LET data == OllamaParse(Head(ls))
         IN  IF data.kind = "error" THEN [enqueued |-> <<>>, threw |-> TRUE]
             ELSE LET rest == EnqueuedOfLines(Tail(ls))
                  IN  [rest EXCEPT
                          !.enqueued =
                              IF data.response # <<>>
                              THEN <<Utf8Encode(data.response)>> \o @
                              ELSE @]

\* Lines 165-181: what the adapter enqueues for one chunk read; when a line
\* does not parse, the chunk's text as it is (lines 178-181).
OllamaEnqueues(value) ==
    LET chunk == Utf8Decode(value)
        lines == NonBlankLines(SplitLines(chunk))
        done == EnqueuedOfLines(lines)
    IN  IF done.threw
        THEN Append(done.enqueued, Utf8Encode(chunk))
        ELSE done.enqueued

\* The call answered with the body of the responses rs: the stream returned
\* (line 151), nothing read yet.
OllamaCall(rs) ==
    [state |-> "open", responses |-> rs, body |-> Utf8Encode(OllamaBody(rs)),
     reads |-> <<>>, enqueued |-> <<>>]

\* One turn of the loop with a chunk (lines 157-181): any run of the bytes
\* still to come.
OllamaRead ==
    /\ ollama.state = "open"
    /\ \E n \in 1..Len(ollama.body) :
          LET value == SubSeq(ollama.body, 1, n)
          IN  ollama' = [ollama EXCEPT
                  !.body = SubSeq(@, n + 1, Len(@)),
                  !.reads = Append(@, value),
                  !.enqueued = @ \o OllamaEnqueues(value)]
    /\ UNCHANGED <<react, call, stream, toasts, lastOutcome, environment,
                   fence, warnings, legacy, env, reply, view>>

\* reader.read() yields done: controller.close() (lines 160-163).
OllamaDone ==
    /\ ollama.state = "open"
    /\ ollama.body = <<>>
    /\ ollama' = [ollama EXCEPT !.state = "closed"]
    /\ UNCHANGED <<react, call, stream, toasts, lastOutcome, environment,
                   fence, warnings, legacy, env, reply, view>>

\* ---------------------------------------------------------- specifications

\* The hook as constructed (part_001:20-24), no call made.
InitController ==
    /\ generatedCode = <<>>
    /\ isGenerating = FALSE
    /\ generationComplete = FALSE
    /\ thinkingOutput = <<>>
    /\ isThinking = FALSE
    /\ call = [c \in Slots |-> IdleCall]
    /\ stream = [c \in Slots |-> NoStream]
    /\ toasts = <<>>
    /\ lastOutcome = "none"
    /\ warnings = <<>>

\* No server configuration, no call into the registry, the page as loaded.
NoRegistry ==
    /\ env = [n \in EnvNames |-> Undefined]
    /\ reply = NoReply
    /\ view = WelcomeView
    /\ ollama = NoOllama

NoFence ==
    /\ fenceIn = <<>>
    /\ fenceOnce = <<>>
    /\ fenceTwice = <<>>
    /\ fenceStage = 0

Init ==
    /\ InitController
    /\ NoRegistry
    /\ legacy = LegacyCall(0)
    /\ requestsLeft = MaxRequests
    /\ deltaPool = PlainPool
    /\ argPool = ArgSets
    /\ NoFence

\* One request against the backend of the wire runs.
InitWire ==
    /\ InitController
    /\ NoRegistry
    /\ legacy = LegacyCall(0)
    /\ requestsLeft = 1
    /\ deltaPool = WirePool
    /\ argPool = WireArgSets
    /\ NoFence

\* One request against a server that may write raw pieces on the body.
InitRaw ==
    /\ InitController
    /\ NoRegistry
    /\ legacy = LegacyCall(0)
    /\ requestsLeft = 1
    /\ deltaPool = RawRunPool
    /\ argPool = WireArgSets
    /\ NoFence

InitThink ==
    /\ InitController
    /\ NoRegistry
    /\ requestsLeft = 0
    /\ deltaPool = {}
    /\ argPool = {}
    /\ NoFence
    /\ legacy = LegacyCall(MaxFeeds)

InitFence ==
    /\ InitController
    /\ NoRegistry
    /\ legacy = LegacyCall(0)
    /\ requestsLeft = 0
    /\ deltaPool = {}
    /\ argPool = {}
    /\ fenceIn \in FenceInputs
    /\ fenceOnce = <<>>
    /\ fenceTwice = <<>>
    /\ fenceStage = 0

\* The hook idle and nothing else running.
NoRequests ==
    /\ InitController
    /\ legacy = LegacyCall(0)
    /\ requestsLeft = 0
    /\ deltaPool = {}
    /\ argPool = {}
    /\ NoFence

\* The server configurations of the listing runs.
ModelEnvs ==
    {[n \in EnvNames |->
         CASE n = "OPENAI_COMPATIBLE_MODEL" -> m
           [] n = "OLLAMA_API_BASE" -> b
           [] OTHER -> Undefined] :
        m \in {Undefined, Str(<<>>), Str(<<" ">>), Str(<<"gpt-4o-mini">>)},
        b \in {Undefined, Str(<<"http://box:11434">>)}}

InitModels ==
    /\ NoRequests
    /\ env \in ModelEnvs
    /\ reply = NoReply
    /\ view = WelcomeView
    /\ ollama = NoOllama

\* Values of DISABLED_PROVIDERS: unset, empty, blank, one id, ids with
\* blanks around them, ids with a comma at the end, an id of no provider.
DenyLists ==
    {Undefined, Str(<<" ">>), Str(<<"ollama">>),
     Str(<<" ", "ollama", " ", ",", " ", "deepseek">>),
     Str(<<"openai_compatible", ",", "lm_studio", ",">>),
     Str(<<"ollama2", ",", "anthropic", " ", "x">>)}

\* The server configurations of the catalog runs.
ConfigEnvs ==
    {[n \in EnvNames |->
         CASE n = "DISABLED_PROVIDERS" -> deny
           [] n = "DEEPSEEK_API_KEY" -> key
           [] n = "OPENAI_COMPATIBLE_API_BASE" -> customBase
           [] n = "OPENAI_COMPATIBLE_API_KEY" -> customKey
           [] n \in {"OLLAMA_API_BASE", "LM_STUDIO_API_BASE"} -> localBase
           [] n = "OLLAMA_API_KEY" -> localKey
           [] n = "ANTHROPIC_API_KEY" -> Str(<<"sk">>)
           [] OTHER -> Undefined] :
        deny \in DenyLists,
        key \in {Undefined, Str(<<" ">>), Str(<<"sk">>)},
        customBase \in {Undefined, Str(<<" ">>), Str(<<"https://api.example/v1">>)},
        customKey \in {Undefined, Str(<<" ">>), Str(<<"sk">>)},
        localBase \in {Undefined, Str(<<>>), Str(<<" ">>), Str(<<"http://box:11434">>)},
        localKey \in {Undefined, Str(<<"sk">>)}}

InitConfig ==
    /\ NoRequests
    /\ env \in ConfigEnvs
    /\ reply = NoReply
    /\ view = WelcomeView
    /\ ollama = NoOllama

\* The server configurations of the request runs.
RouteEnvs ==
    {[n \in EnvNames |->
         IF n = "DEFAULT_PROVIDER" THEN d ELSE Undefined] :
        d \in {Undefined, Str(<<>>), Str(<<"ollama">>), Str(<<"OLLAMA">>)}}

InitRoute ==
    /\ NoRequests
    /\ env \in RouteEnvs
    /\ reply = NoReply
    /\ view = WelcomeView
    /\ ollama = NoOllama

\* The inputs of the notification runs: a request for each kind of
\* provider, and one that fails the validation.
ToastArgSets ==
    {[prompt |-> <<"p">>, model |-> <<"m">>, provider |-> p] :
        p \in ToastProviders}
    \cup {[prompt |-> <<" ">>, model |-> <<"m">>, provider |-> <<"deepseek">>]}

\* One request, and the catch block on its own.
InitToast ==
    /\ InitController
    /\ NoRegistry
    /\ legacy = LegacyCall(0)
    /\ requestsLeft = 1
    /\ deltaPool = RawRunPool
    /\ argPool = ToastArgSets
    /\ NoFence

\* Two requests on one hook, its caller serializing nothing.
InitOverlap ==
    /\ generatedCode = <<>>
    /\ isGenerating = FALSE
    /\ generationComplete = FALSE
    /\ thinkingOutput = <<>>
    /\ isThinking = FALSE
    /\ call = [c \in HookSlots |-> IdleCall]
    /\ stream = [c \in HookSlots |-> NoStream]
    /\ toasts = <<>>
    /\ lastOutcome = "none"
    /\ warnings = <<>>
    /\ NoRegistry
    /\ legacy = LegacyCall(0)
    /\ requestsLeft = 2
    /\ deltaPool = {TextDelta(<<"a">>)}
    /\ argPool = {[prompt |-> <<"p">>, model |-> <<"m">>,
                   provider |-> <<"deepseek">>]}
    /\ NoFence

\* The page: the welcome view's request, then the generation view, its new
\* prompts and one more request.
InitPage ==
    /\ generatedCode = <<>>
    /\ isGenerating = FALSE
    /\ generationComplete = FALSE
    /\ thinkingOutput = <<>>
    /\ isThinking = FALSE
    /\ call = [c \in HookSlots |-> IdleCall]
    /\ stream = [c \in HookSlots |-> NoStream]
    /\ toasts = <<>>
    /\ lastOutcome = "none"
    /\ warnings = <<>>
    /\ NoRegistry
    /\ legacy = LegacyCall(0)
    /\ requestsLeft = 2
    /\ deltaPool = RawRunPool
    /\ argPool = {[prompt |-> <<"p">>, model |-> <<"m">>,
                   provider |-> <<"deepseek">>]}
    /\ NoFence

\* One request, on the backend of the controller runs.
InitLive ==
    /\ InitController
    /\ NoRegistry
    /\ legacy = LegacyCall(0)
    /\ requestsLeft = 1
    /\ deltaPool = PlainPool
    /\ argPool = WireArgSets
    /\ NoFence

\* The deltas of the encoder runs: an empty one, one that holds newlines, one
\* that holds a quote and a backslash.
EncodePool ==
    {TextDelta(<<>>), TextDelta(<<"a", NL, NL, "b">>),
     ReasoningDelta(<<NL, QUOTE, BACKSLASH>>), ReasoningDelta(<<>>), FinishPart}

\* One request against the backend of the encoder runs.
InitEncode ==
    /\ InitController
    /\ NoRegistry
    /\ legacy = LegacyCall(0)
    /\ requestsLeft = 1
    /\ deltaPool = EncodePool
    /\ argPool = WireArgSets
    /\ NoFence

\* The tag-based hook with one more call to come.
InitThinkAgain ==
    /\ InitController
    /\ NoRegistry
    /\ requestsLeft = 1
    /\ deltaPool = {}
    /\ argPool = {}
    /\ NoFence
    /\ legacy = LegacyCall(MaxFeeds)

\* What Ollama answers: one line, two lines, a line with a newline in its
\* response, and a last line with an empty response.
OllamaAnswers ==
    {<< <<"a">> >>, << <<"a">>, <<"b">> >>, << <<"a", NL>>, <<>> >>}

\* The Ollama adapter alone, called once.
InitOllama ==
    /\ NoRequests
    /\ env = [n \in EnvNames |-> Undefined]
    /\ reply = NoReply
    /\ view = WelcomeView
    /\ \E rs \in OllamaAnswers : ollama = OllamaCall(rs)

Next ==
    \E c \in Slots :
        \/ GenerateCode(c)
        \/ SetIsGeneratingTrue(c)
        \/ ResetGeneratedCode(c)
        \/ ResetThinkingOutput(c)
        \/ ResetIsThinking(c)
        \/ ResetGenerationComplete(c)
        \/ FetchRejects(c)
        \/ FetchNotOk(c)
        \/ FetchOk(c)
        \/ EncodePart(c)
        \/ EncoderClose(c)
        \/ EncoderError(c)
        \/ ReadChunk(c)
        \/ ReadDone(c)
        \/ ReadError(c)
        \/ TransportFailure(c)
        \/ SetIsThinkingTrue(c)
        \/ ProcessLine(c)
        \/ ProcessRemnant(c)
        \/ EndThinking(c)
        \/ SetGenerationComplete(c)
        \/ Catch(c)
        \/ Finally(c)

\* The steps of a call once it has been made.
CallStep(c) ==
    \/ SetIsGeneratingTrue(c)
    \/ ResetGeneratedCode(c)
    \/ ResetThinkingOutput(c)
    \/ ResetIsThinking(c)
    \/ ResetGenerationComplete(c)
    \/ FetchRejects(c)
    \/ FetchNotOk(c)
    \/ FetchOk(c)
    \/ EncodePart(c)
    \/ EncoderClose(c)
    \/ EncoderError(c)
    \/ ReadChunk(c)
    \/ ReadDone(c)
    \/ ReadError(c)
    \/ TransportFailure(c)
    \/ SetIsThinkingTrue(c)
    \/ ProcessLine(c)
    \/ ProcessRemnant(c)
    \/ EndThinking(c)
    \/ SetGenerationComplete(c)
    \/ Catch(c)
    \/ Finally(c)

\* Two calls whose requests both succeed.
NextOverlap ==
    \E c \in HookSlots :
        \/ GenerateCodeUnserialized(c)
        \/ SetIsGeneratingTrue(c)
        \/ ResetGeneratedCode(c)
        \/ ResetThinkingOutput(c)
        \/ ResetIsThinking(c)
        \/ ResetGenerationComplete(c)
        \/ FetchOk(c)
        \/ EncodePart(c)
        \/ EncoderClose(c)
        \/ ReadChunk(c)
        \/ ReadDone(c)
        \/ ProcessLine(c)
        \/ ProcessRemnant(c)
        \/ EndThinking(c)
        \/ SetGenerationComplete(c)
        \/ Finally(c)

NextPage ==
    \/ \E c \in HookSlots :
           HandleGenerate(c) \/ HandleSendNewPrompt(c) \/ CallStep(c)
    \/ \E text \in Prompts : SetNewPrompt(text)

NextThinkAgain == LegacyRead \/ LegacyGenerateCode

NextOllama == OllamaRead \/ OllamaDone

NextFence == CleanOnce \/ CleanTwice

NextThink == LegacyRead

NextRaw == Next \/ \E c \in Slots : ServerWritesRaw(c)

NextModels == GetModelsCall \/ LegacyGetModelsCall

NextConfig ==
    \/ GetProviderConfigCall
    \/ GetProviderBaseUrlCall
    \/ GetProviderApiKeyCall
    \/ IsProviderConfiguredCall
    \/ GetAvailableProvidersCall
    \/ CreateProviderClientCall

NextRoute == PostGenerateCode

NextToast == Next \/ ClassifyError

\* One hook, two calls, no serializing caller.
SpecOverlap == InitOverlap /\ [][NextOverlap]_vars

\* The hook behind the page's triggers.
SpecPage == InitPage /\ [][NextPage]_vars

\* A request whose call is not left waiting for ever: a continuation runs once
\* the promise it awaits has settled (fetch, reader.read()), the route goes on
\* writing and ends its stream, and a transport that neither delivers nor
\* ends fails.  All of these are steps of CallStep, none of which can be taken
\* for ever.
SpecLive ==
    InitLive /\ [][Next]_vars /\ \A c \in Slots : WF_vars(CallStep(c))

\* The encoder and the lines it writes.
SpecEncode == InitEncode /\ [][Next]_vars

\* Two calls of the tag-based hook, one after the other.
SpecThinkAgain == InitThinkAgain /\ [][NextThinkAgain]_vars

\* The stream of the Ollama adapter over every split of the body.
SpecOllama == InitOllama /\ [][NextOllama]_vars

\* The controller over a run of requests.
Spec == Init /\ [][Next]_vars

\* One request, with every chunking of its wire payload.
SpecWire == InitWire /\ [][Next]_vars

\* One request whose response carries pieces the encoder did not write.
SpecRaw == InitRaw /\ [][NextRaw]_vars

\* The read loop of the tag-based hook over every run of chunks.
SpecThink == InitThink /\ [][NextThink]_vars

\* The fence cleanup applied to every input, once and twice.
SpecFence == InitFence /\ [][NextFence]_vars

\* One listing of models, under every answer of the network.
SpecModels == InitModels /\ [][NextModels]_vars

\* One call into the catalog, under every server configuration.
SpecConfig == InitConfig /\ [][NextConfig]_vars

\* One request, from the hook's arguments to the model's call.
SpecRoute == InitRoute /\ [][NextRoute]_vars

\* One request for each kind of provider, and the classification of every
\* error message.
SpecToast == InitToast /\ [][NextToast]_vars

\* ------------------------------------------------------------------ claims

\* The text deltas, and the reasoning deltas, among the first deltas of ds.
RECURSIVE TextsOf(_)
TextsOf(ds) ==
    IF ds = <<>> THEN <<>>
    ELSE (IF Head(ds).type = "text-delta" THEN <<Head(ds).text>> ELSE <<>>)
             \o TextsOf(Tail(ds))

RECURSIVE ReasoningsOf(_)
ReasoningsOf(ds) ==
    IF ds = <<>> THEN <<>>
    ELSE (IF Head(ds).type = "reasoning-delta" THEN <<Head(ds).text>> ELSE <<>>)
             \o ReasoningsOf(Tail(ds))

\* The concatenation of the first k strings of ss.
FirstK(ss, k) == Concat(SubSeq(ss, 1, k))

NonBlank(s) == Trim(s) # <<>>

\* The request of slot c has been sent: fetch was called.
NetworkCallIssued(c) ==
    call[c].pc \in {"fetch", "read", "lines", "remnant", "L147", "L151",
                    "catch", "finally"}

\* C1 as claimed: isGenerating and generationComplete are never both true,
\* in any state between two state updates of generateCode.
C1_NeverGeneratingAndComplete == ~(isGenerating /\ generationComplete)

\* generateCode is not in the middle of a run of state updates: every call
\* is waiting (for the response, for a chunk) or has returned.
NoUpdateRunning == \A c \in Slots : call[c].pc \in {"idle", "fetch", "read"}

\* C1, amended: whenever every generateCode call is suspended at an await
\* or has returned, isGenerating and generationComplete are not both true.
C1_NotBothWhenSuspended ==
    NoUpdateRunning => ~(isGenerating /\ generationComplete)

\* C1, its case: a request is waiting for a chunk after the request before
\* it had completed.
C1_StreamingAfterComplete ==
    \E c \in Slots :
        /\ call[c].pc = "read"
        /\ call[c].found.generationComplete
        /\ isGenerating

\* C2: isThinking is true only while isGenerating is true, however a request
\* ends.
C2_ThinkingOnlyWhileGenerating == isThinking => isGenerating

\* C3: once a generateCode call has returned (after success, after a thrown
\* error, after a failed validation) isGenerating is false.
C3_GeneratingReleasedOnReturn == NoCallActive => ~isGenerating

\* C3, its case: a call that threw has returned.
C3_ReturnedAfterError ==
    /\ NoCallActive
    /\ lastOutcome = "failed"
    /\ toasts # <<>>

\* C4: a request that starts over the non-empty state of a finished request
\* has cleared generatedCode, thinkingOutput, isThinking and
\* generationComplete before it publishes anything, and every value it
\* publishes is made of its own deltas only.
C4_ResetBeforePublish ==
    \A c \in Slots :
        LET cr == call[c]
            texts == TextsOf(stream[c].consumed)
            reasonings == ReasoningsOf(stream[c].consumed)
        IN  /\ cr.pc \in {"fetch", "read", "lines", "remnant", "L147"} =>
                  /\ ~generationComplete
                  /\ isThinking => cr.hasReceivedReasoning
                  /\ generatedCode =
                        IF cr.pubCode = <<>> THEN <<>>
                        ELSE cr.pubCode[Len(cr.pubCode)]
                  /\ thinkingOutput =
                        IF cr.pubThinking = <<>> THEN <<>>
                        ELSE cr.pubThinking[Len(cr.pubThinking)]
            /\ stream[c].state # "none" =>
                  /\ Len(cr.pubCode) <= Len(texts)
                  /\ Len(cr.pubThinking) <= Len(reasonings)
                  /\ \A k \in 1..Len(cr.pubCode) :
                        cr.pubCode[k] = FenceCleanup(FirstK(texts, k))
                  /\ \A k \in 1..Len(cr.pubThinking) :
                        cr.pubThinking[k] = FirstK(reasonings, k)

\* C4, its case: a request that found code, reasoning and the complete flag
\* of an earlier request has published code and reasoning of its own.
C4_SecondRequestPublishes ==
    \E c \in Slots :
        /\ call[c].found.generatedCode
        /\ call[c].found.thinkingOutput
        /\ call[c].found.generationComplete
        /\ call[c].pubCode # <<>>
        /\ call[c].pubThinking # <<>>

\* C5: a network call is issued only if prompt, model id and provider id
\* are all non-blank (not empty, not white space only).
C5_CallOnlyWithNonBlankInputs ==
    \A c \in Slots :
        NetworkCallIssued(c) =>
            /\ NonBlank(call[c].args.prompt)
            /\ NonBlank(call[c].args.model)
            /\ NonBlank(call[c].args.provider)

\* What the decoder holds after the lines ls, applied in order to cr.
RECURSIVE AfterLines(_, _)
AfterLines(cr, ls) ==
    IF ls = <<>> THEN cr ELSE AfterLines(AfterLine(cr, Head(ls)), Tail(ls))

\* The decoder run on a payload handed over as one chunk: every complete
\* line, then the remnant.
WholeDecode(payload) ==
    LET ls == SplitLines(Utf8Decode(payload))
    IN  AfterLine(AfterLines(IdleCall, AllButLast(ls)), LastOf(ls))

\* The last value a decoder run published on each channel.
FinalCode(cr) ==
    IF cr.pubCode = <<>> THEN <<>> ELSE cr.pubCode[Len(cr.pubCode)]
FinalThinking(cr) ==
    IF cr.pubThinking = <<>> THEN <<>> ELSE cr.pubThinking[Len(cr.pubThinking)]

\* The call of slot c has read its stream to a clean end.
CleanEnd(c) == call[c].pc \in {"L147", "L151"}

\* C6: the decoder's final code and reasoning are those of the payload
\* decoded as one chunk, however the transport split the payload, inside a
\* line, a record or a UTF-8 sequence.
C6_ChunkBoundaryInvariance ==
    \A c \in Slots :
        CleanEnd(c) =>
            LET whole == WholeDecode(Concat(stream[c].enqueued))
            IN  /\ generatedCode = FinalCode(whole)
                /\ thinkingOutput = FinalThinking(whole)

\* C7: the fence cleanup is idempotent: applied to its own result it changes
\* nothing, for every input.
C7_FenceCleanupIdempotent == fenceStage = 2 => fenceTwice = fenceOnce

\* Letters a language tag is written with.
TagLetters == {"a", "b", "h", "i", "j", "l", "m", "p", "s", "t", "x"}

\* s with a leading opener of any language tag (three backticks, letters,
\* a newline) removed.
StripAnyOpener(s) ==
    IF /\ StartsWith(s, Closer)
       /\ \E j \in 5..Len(s) :
             /\ s[j] = NL
             /\ \A k \in 4..(j - 1) : s[k] \in TagLetters
    THEN LET j == CHOOSE i \in 5..Len(s) :
                      /\ s[i] = NL
                      /\ \A k \in 4..(i - 1) : s[k] \in TagLetters
         IN  SubSeq(s, j + 1, Len(s))
    ELSE s

\* C8 as claimed: after a text record the published code is the accumulator
\* without a leading opener of whatever language tag and without a trailing
\* closer.
C8_AnyLanguageTagStripped ==
    \A c \in Slots :
        call[c].pubCode # <<>> =>
            generatedCode = StripCloser(StripAnyOpener(call[c].codeBuffer))

\* C8, amended: after a text record the accumulator is the published code
\* with the opener of the html tag before it exactly when the accumulator
\* starts with that opener, and with the closer after it exactly when what
\* follows the opener ends with the closer; nothing else differs.
C8_PublishedCodeIsCleanedAccumulator ==
    \A c \in Slots :
        call[c].pubCode # <<>> =>
            LET acc == call[c].codeBuffer
                pre == IF StartsWith(acc, Opener) THEN Opener ELSE <<>>
                rest == SubSeq(acc, Len(pre) + 1, Len(acc))
                post == IF EndsWith(rest, Closer) THEN Closer ELSE <<>>
            IN  acc = pre \o generatedCode \o post

\* C8, its case: the scenario's record has been published.
C8_ScenarioPublished ==
    \E c \in Slots :
        /\ call[c].codeBuffer = FencedPage
        /\ call[c].pubCode # <<>>
        /\ generatedCode = <<"<", "p", ">", "h", "i", "<", "/", "p", ">", NL>>

\* C9: after a clean end the k-th value published on the reasoning channel
\* is the concatenation of the first k reasoning deltas, and the k-th value
\* published on the code channel is the fence cleanup of the concatenation
\* of the first k text deltas; nothing is skipped, merged or reordered.
C9_PublishedInEmissionOrder ==
    \A c \in Slots :
        CleanEnd(c) =>
            LET texts == TextsOf(stream[c].consumed)
                reasonings == ReasoningsOf(stream[c].consumed)
            IN  /\ call[c].pubCode =
                      [k \in 1..Len(texts) |-> FenceCleanup(FirstK(texts, k))]
                /\ call[c].pubThinking =
                      [k \in 1..Len(reasonings) |-> FirstK(reasonings, k)]

\* The record a delta is to be written as.
RecordOf(part) ==
    [kind |-> "record",
     type |-> IF part.type = "text-delta" THEN "text" ELSE "reasoning",
     content |-> part.text]

\* C10: the encoder has enqueued one chunk for each text or reasoning delta
\* it has taken, in the order taken; each chunk is one line, the JSON text
\* of the delta's record (type text for a text delta, reasoning for a
\* reasoning delta) and a newline; no other part enqueues anything.
C10_OneRecordPerDelta ==
    \A c \in Slots :
        LET ds == stream[c].consumed
            es == stream[c].enqueued
        IN  /\ Len(es) = Len(ds)
            /\ \A k \in 1..Len(es) :
                  LET n == Len(es[k])
                  IN  /\ n >= 1
                      /\ es[k][n] = NL
                      /\ \A i \in 1..(n - 1) : es[k][i] # NL
                      /\ JsonParse(Utf8Decode(SubSeq(es[k], 1, n - 1)))
                             = RecordOf(ds[k])

\* C10, its case: a reasoning delta and a text delta have been taken and the
\* stream was closed.
C10_BothChannelsEncoded ==
    \E c \in Slots :
        /\ stream[c].state = "closed"
        /\ Len(stream[c].consumed) = 2
        /\ stream[c].consumed[1].type = "reasoning-delta"
        /\ stream[c].consumed[2].type = "text-delta"
        /\ NL \in {stream[c].consumed[2].text[i] :
                       i \in 1..Len(stream[c].consumed[2].text)}

\* C11: when the model call has failed after the stream was opened, the
\* route's stream is never in the cleanly closed state: it is closed only
\* when the delta sequence ended cleanly, and a reader that is told done
\* has read a sequence that ended cleanly.
C11_FailureNeverClosesCleanly ==
    \A c \in Slots :
        /\ stream[c].state = "closed" => stream[c].upstream = "ended"
        /\ call[c].pc \in {"remnant", "L147", "L151"} =>
               stream[c].upstream = "ended"

\* The text the call of slot c has read so far, its complete lines, and
\* those of them the loop is done with.
ReceivedText(c) ==
    Utf8Decode(SubSeq(stream[c].sent, 1,
                      Len(stream[c].sent) - Len(stream[c].wire)))
CompleteLines(c) == AllButLast(SplitLines(ReceivedText(c)))
ProcessedLines(c) ==
    SubSeq(CompleteLines(c), 1, Len(CompleteLines(c)) - Len(call[c].lines))
\* What the stream left behind its last newline.
Remnant(c) == LastOf(SplitLines(ReceivedText(c)))

\* A line that is a record of the type.
IsRecordOf(line, type) ==
    /\ Trim(line) # <<>>
    /\ JsonParse(line).kind = "record"
    /\ JsonParse(line).type = type
\* A line that is not blank and is no record.
Unparseable(line) == Trim(line) # <<>> /\ JsonParse(line).kind # "record"
\* A line that is not blank and that JSON.parse rejects.
Rejected(line) == Trim(line) # <<>> /\ JsonParse(line).kind = "error"

\* The contents of the records of the type among the lines ls, in order.
RECURSIVE ContentsOf(_, _)
ContentsOf(ls, type) ==
    IF ls = <<>> THEN <<>>
    ELSE (IF IsRecordOf(Head(ls), type) THEN JsonParse(Head(ls)).content
          ELSE <<>>) \o ContentsOf(Tail(ls), type)

\* The lines among ls that JSON.parse rejects, in order.
RECURSIVE RejectedOf(_)
RejectedOf(ls) ==
    IF ls = <<>> THEN <<>>
    ELSE (IF Rejected(Head(ls)) THEN <<Head(ls)>> ELSE <<>>)
             \o RejectedOf(Tail(ls))

\* The loop of slot c is at a line that is no record.
AtUnparseableLine(c) ==
    /\ call[c].pc = "lines"
    /\ Unparseable(Head(call[c].lines))

\* C12, the state part: while a call reads, its accumulators are the contents
\* of the valid records among the lines it is done with, whatever lines that
\* are no records lie between them.
C12_ValidRecordsApplied ==
    \A c \in Slots :
        call[c].pc \in {"read", "lines"} =>
            /\ call[c].codeBuffer = ContentsOf(ProcessedLines(c), "text")
            /\ call[c].reasoningBuffer =
                   ContentsOf(ProcessedLines(c), "reasoning")

\* C12, the step part: the step over a line that is no record changes no
\* accumulator, no published value and no flag, and the call goes on with
\* the next line or the next read.
C12_StepOverUnparseable ==
    \A c \in Slots :
        (AtUnparseableLine(c) /\ call'[c] # call[c]) =>
            /\ react' = react
            /\ call'[c].codeBuffer = call[c].codeBuffer
            /\ call'[c].reasoningBuffer = call[c].reasoningBuffer
            /\ call'[c].hasReceivedReasoning = call[c].hasReceivedReasoning
            /\ call'[c].error = ""
            /\ call'[c].pc \in {"lines", "read"}

\* C12: a wire line that is no record does not abort the stream: it changes
\* neither accumulator nor any flag, and every later valid record is still
\* applied.
C12_UnparseableLineNotFatal ==
    []C12_ValidRecordsApplied /\ [][C12_StepOverUnparseable]_vars

\* C12, its case: a request has been marked complete whose first line was
\* plain text and which took a text record after it.
C12_CompleteAfterBadLine ==
    \E c \in Slots :
        /\ call[c].pc = "finally"
        /\ generationComplete
        /\ stream[c].sent # <<>>
        /\ stream[c].sent[1] = "x"
        /\ warnings # <<>>
        /\ call[c].codeBuffer # <<>>

\* The lines among ls that are not blank and are no records, in order.
RECURSIVE UnparseableOf(_)
UnparseableOf(ls) ==
    IF ls = <<>> THEN <<>>
    ELSE (IF Unparseable(Head(ls)) THEN <<Head(ls)>> ELSE <<>>)
             \o UnparseableOf(Tail(ls))

\* The call of slot c is past the parse of the remnant and not yet back.
PastRemnant(c) == call[c].pc \in {"L147", "L151"}

C14_RemnantAppliedOnce ==
    \A c \in Slots :
        PastRemnant(c) =>
            LET all == Append(CompleteLines(c), Remnant(c))
            IN  /\ ~generationComplete
                /\ call[c].codeBuffer = ContentsOf(all, "text")
                /\ call[c].reasoningBuffer = ContentsOf(all, "reasoning")
                /\ IsRecordOf(Remnant(c), "text") =>
                       generatedCode = FenceCleanup(call[c].codeBuffer)
                /\ IsRecordOf(Remnant(c), "reasoning") =>
                       thinkingOutput = call[c].reasoningBuffer

\* C14, its case: a stream whose last record had no newline after it, with
\* a line before it, has ended cleanly and the remnant was parsed.
C14_RecordLeftInCarryBuffer ==
    \E c \in Slots :
        /\ PastRemnant(c)
        /\ CompleteLines(c) # <<>>
        /\ IsRecordOf(Remnant(c), "text")
        /\ generatedCode # <<>>

\* One of the lines ls is a reasoning record.
HasReasoningRecord(ls) ==
    \E k \in 1..Len(ls) : IsRecordOf(ls[k], "reasoning")

\* C15, while the stream is read: isThinking is true exactly when a
\* reasoning record has been processed (or is the line being processed),
\* whatever text and reasoning records came after it.
C15_ThinkingFromFirstReasoning ==
    \A c \in Slots :
        /\ call[c].pc = "read" =>
               (isThinking <=> HasReasoningRecord(ProcessedLines(c)))
        /\ call[c].pc = "lines" =>
               (isThinking <=>
                   \/ HasReasoningRecord(ProcessedLines(c))
                   \/ /\ call[c].hasReceivedReasoning
                      /\ IsRecordOf(Head(call[c].lines), "reasoning"))

\* C15, once the stream has ended, cleanly or not: isThinking is false.
C15_NotThinkingAfterStream ==
    /\ \A c \in Slots :
           call[c].pc \in {"L151", "catch", "finally"} => ~isThinking
    /\ NoCallActive => ~isThinking

\* C15: within a request isThinking becomes true exactly when the first
\* reasoning record is processed, stays true while later records are
\* processed, and is false once the stream ends.
C15_ThinkingFollowsReasoning ==
    C15_ThinkingFromFirstReasoning /\ C15_NotThinkingAfterStream

\* The call of slot c has thrown and is in its catch or finally block.
OnFailurePath(c) ==
    /\ call[c].pc \in {"catch", "finally"}
    /\ call[c].error # ""

\* The last value of a sequence of published values, the empty text when
\* there is none.
LastPublished(pub) == IF pub = <<>> THEN <<>> ELSE pub[Len(pub)]

\* C16, the state part: on the failure path the request is not complete
\* and the published code and reasoning are the last values published
\* before the failure; once such a call has returned the controller is
\* neither generating nor complete.
C16_PartialOutputStands ==
    /\ \A c \in Slots :
           OnFailurePath(c) =>
               /\ ~generationComplete
               /\ generatedCode = LastPublished(call[c].pubCode)
               /\ thinkingOutput = LastPublished(call[c].pubThinking)
    /\ (NoCallActive /\ lastOutcome = "failed") =>
           (~isGenerating /\ ~generationComplete)

\* C16, the step part: a step of the failure path changes neither the
\* published code nor the published reasoning nor the complete flag, and
\* the step that returns leaves isGenerating false.
C16_FailureStepKeepsOutput ==
    \A c \in Slots :
        (OnFailurePath(c) /\ call'[c] # call[c]) =>
            /\ generatedCode' = generatedCode
            /\ thinkingOutput' = thinkingOutput
            /\ generationComplete' = generationComplete
            /\ call'[c].pc = "idle" => ~isGenerating'

\* C16: when the read loop is aborted or the stream fails, the controller
\* ends with isGenerating and isComplete false, and the code and reasoning
\* keep the values published before the failure.
C16_FailureKeepsPublished ==
    []C16_PartialOutputStands /\ [][C16_FailureStepKeepsOutput]_vars

\* C16, its case: a call that had published code and reasoning has failed
\* and returned.
C16_FailedAfterPublishing ==
    /\ NoCallActive
    /\ lastOutcome = "failed"
    /\ generatedCode # <<>>
    /\ thinkingOutput # <<>>

\* The call of slot c passed the validation, read its stream to a clean end
\* and is about to mark the request complete.
AboutToComplete(c) ==
    /\ call[c].pc = "L151"
    /\ call[c].error = ""
    /\ ~ValidationFails(call[c].args)
    /\ stream[c].state = "closed"
    /\ stream[c].wire = <<>>

\* C17, the step part: the complete flag rises only in the step of a call
\* that is generating and has read the stream of its validated request to a
\* clean end, and no step of a call that has thrown changes it.
C17_CompleteOnlyAfterCleanEnd ==
    /\ (generationComplete' /\ ~generationComplete) =>
           \E c \in Slots :
               AboutToComplete(c) /\ isGenerating /\ call'[c].pc = "finally"
    /\ \A c \in Slots :
           (OnFailurePath(c) /\ call'[c] # call[c]) => ~generationComplete'

\* C17, the state part: Generating leads to Complete or to Failed: a call
\* that has thrown has not set the complete flag, after a failed request
\* the controller is idle and not complete, after a completed one idle and
\* complete.
C17_CompleteOrFailed ==
    /\ \A c \in Slots : OnFailurePath(c) => ~generationComplete
    /\ (NoCallActive /\ lastOutcome = "failed") =>
           (~generationComplete /\ ~isGenerating)
    /\ (NoCallActive /\ lastOutcome = "complete") =>
           (generationComplete /\ ~isGenerating)
    /\ (NoCallActive /\ lastOutcome = "none") =>
           (~generationComplete /\ ~isGenerating)

\* C17: Idle, Generating, then Complete or Failed: isComplete becomes true
\* only after the stream of a validated request has ended cleanly, a request
\* that fails never sets it, and after a failure it stays false until a
\* later request completes.
C17_StateMachine ==
    []C17_CompleteOrFailed /\ [][C17_CompleteOnlyAfterCleanEnd]_vars

\* C17, its case: a request has completed after the request before it had
\* failed.
C17_CompletedAfterFailure ==
    /\ NoCallActive
    /\ lastOutcome = "complete"
    /\ generationComplete
    /\ toasts # <<>>
    /\ toasts[Len(toasts)] # "validation"

\* A string with neither tag in it.
DelimiterFree(s) == IndexOf(s, OpenTag) = -1 /\ IndexOf(s, CloseTag) = -1

\* C18: after a single feed of the form p <think> a </think> b, with p, a
\* and b free of delimiters, the extractor's text is p followed by b, its
\* reasoning is a, and it is outside the block.
C18_SingleFeedRoundTrip ==
    Len(legacy.feeds) = 1 =>
        LET f == legacy.feeds[1]
        IN  \A i, j \in 0..Len(f) :
                LET p == Substring(f, 0, i)
                    a == Substring(f, i + 7, j)
                    b == SubstringFrom(f, j + 8)
                IN  (/\ Occurs(f, OpenTag, i)
                     /\ i + 7 <= j
                     /\ Occurs(f, CloseTag, j)
                     /\ DelimiterFree(p)
                     /\ DelimiterFree(a)
                     /\ DelimiterFree(b)) =>
                        /\ legacy.cleanedCode = p \o b
                        /\ legacy.thinkingText = a
                        /\ ~legacy.isInThinkingBlock

\* C18, its case: the block with text before and after it was fed at once.
C18_BlockFedAtOnce ==
    /\ Len(legacy.feeds) = 1
    /\ legacy.feeds[1] = <<"p">> \o OpenTag \o <<"a">> \o CloseTag \o <<"b">>
    /\ legacy.cleanedCode = <<"p", "b">>
    /\ legacy.thinkingText = <<"a">>

\* What C19 says of a first feed <think> a and a second feed b </think> c,
\* for the a, b and c that ok admits.
AcrossFeeds(ok(_, _, _)) ==
    (Len(legacy.feeds) \in {1, 2} /\ Occurs(legacy.feeds[1], OpenTag, 0)) =>
        LET a == SubstringFrom(legacy.feeds[1], 7)
        IN  /\ (Len(legacy.feeds) = 1 /\ ok(a, <<>>, <<>>)) =>
                   /\ legacy.isInThinkingBlock
                   /\ legacy.thinkingText = a
                   /\ legacy.cleanedCode = <<>>
            /\ Len(legacy.feeds) = 2 =>
                   \A j \in 0..Len(legacy.feeds[2]) :
                       LET b == Substring(legacy.feeds[2], 0, j)
                           c == SubstringFrom(legacy.feeds[2], j + 8)
                       IN  (Occurs(legacy.feeds[2], CloseTag, j)
                               /\ ok(a, b, c)) =>
                               /\ ~legacy.isInThinkingBlock
                               /\ legacy.thinkingText = a \o b
                               /\ legacy.cleanedCode = c

AllDelimiterFree(a, b, c) ==
    DelimiterFree(a) /\ DelimiterFree(b) /\ DelimiterFree(c)
NoTagAcrossFeeds(a, b, c) ==
    AllDelimiterFree(a, b, c) /\ IndexOf(a \o b, CloseTag) = -1

\* C19 as claimed: for all delimiter-free a, b and c, after the feed
\* <think> a the extractor is inside the block with reasoning a and no text,
\* and after the feed b </think> c it is outside the block with reasoning
\* a b and text c.
C19_StateAcrossFeeds == AcrossFeeds(AllDelimiterFree)

\* C19, amended: the same for the delimiter-free a, b and c such that a
\* followed by b does not contain the closing delimiter.
C19_StateAcrossFeedsNoSplitTag == AcrossFeeds(NoTagAcrossFeeds)

\* C19, its case: the block was opened in one feed and closed in the next.
C19_ClosedInSecondFeed ==
    /\ legacy.feeds = <<OpenTag \o <<"a">>, <<"b">> \o CloseTag \o <<"c">> >>
    /\ legacy.thinkingText = <<"a", "b">>
    /\ legacy.cleanedCode = <<"c">>

\* Everything fed so far.
RECURSIVE Fed(_)
Fed(fs) == IF fs = <<>> THEN <<>> ELSE Head(fs) \o Fed(Tail(fs))

\* C20: while the opening delimiter has been fed and the closing one has
\* not, the extractor is inside the block, its reasoning is everything after
\* the opening delimiter and its text what came before it; while no opening
\* delimiter has been fed, its text is everything fed and its reasoning is
\* empty.
C20_UnterminatedBlockIsReasoning ==
    legacy.feeds # <<>> =>
        LET all == Fed(legacy.feeds)
            open == IndexOf(all, OpenTag)
        IN  /\ (open # -1 /\ IndexOf(all, CloseTag) = -1) =>
                   /\ legacy.isInThinkingBlock
                   /\ legacy.thinkingText = SubstringFrom(all, open + 7)
                   /\ legacy.cleanedCode = Substring(all, 0, open)
            /\ open = -1 =>
                   /\ legacy.cleanedCode = all
                   /\ legacy.thinkingText = <<>>
                   /\ ~legacy.isInThinkingBlock

\* C20, its case: text, then an opening delimiter, then more content in a
\* later feed, and no closing delimiter.
C20_OpenBlockOverFeeds ==
    /\ Len(legacy.feeds) = 3
    /\ IndexOf(Fed(legacy.feeds), OpenTag) > 0
    /\ IndexOf(Fed(legacy.feeds), CloseTag) = -1
    /\ IndexOf(legacy.feeds[3], OpenTag) = -1
    /\ Len(legacy.thinkingText) >= 2


\* ---------------------------------------------------------------- C21..C30

\* message.includes(words), for a message and a phrase given as words.
Mentions(message, words) == IndexOf(message, words) # -1

\* A getModels call on a client that went to the network.
Listing == reply.op \in {"getModels", "legacyGetModels"}
Discovery == reply.op = "getModels" /\ reply.fetched

\* C21: when the backend of a provider with a discovery endpoint answers
\* with a non-success response, getModels fails with an error that carries
\* the response's status text and that differs from the error the same client
\* gives when the network call itself cannot be made.
C21_StatusErrorDistinctFromUnreachable ==
    (Discovery /\ reply.net.kind = "response" /\ ~reply.net.ok) =>
        /\ reply.result.kind = "throws"
        /\ Mentions(reply.result.value, <<reply.net.statusText>>)
        /\ reply.result # getModels(reply.provider, Rejects).result

\* C22: when the fetch of the ollama client cannot reach the server,
\* getModels throws, it returns no list, and the message of the error
\* contains "Ollama" and "running"; so for the client of part_005.
C22_OllamaUnreachableNamesBackend ==
    (Listing /\ reply.provider = "ollama" /\ reply.net.kind = "rejects") =>
        /\ reply.result.kind = "throws"
        /\ Mentions(reply.result.value, <<"Ollama">>)
        /\ Mentions(reply.result.value, <<"running">>)

\* The ollama client was asked for its models while its server, at a
\* configured address, could not be reached.
C22_OllamaServerDown ==
    /\ reply.op = "getModels"
    /\ reply.provider = "ollama"
    /\ reply.net.kind = "rejects"
    /\ reply.fetched
    /\ Truthy(env["OLLAMA_API_BASE"])

\* C23: with OPENAI_COMPATIBLE_MODEL set to a value, getModels of the
\* openai_compatible client returns one model, whose id and name are that
\* value, and does not fetch; on every other client the variable changes
\* nothing: the client fetches as without it (the deepseek client of
\* provider.ts returns its fixed list).
C23_OverrideBypassesDiscovery ==
    Listing =>
        LET envModel == env["OPENAI_COMPATIBLE_MODEL"]
        IN  /\ (reply.provider = "openai_compatible" /\ Truthy(envModel)) =>
                   /\ ~reply.fetched
                   /\ reply.result.kind = "returns"
                   /\ Len(reply.result.value) = 1
                   /\ reply.result.value[1].id = envModel
                   /\ reply.result.value[1].name = envModel
            /\ (reply.provider # "openai_compatible"
                    /\ ~(reply.op = "getModels" /\ reply.provider = "deepseek")) =>
                   /\ reply.fetched
                   /\ reply.result =
                          IF reply.op = "getModels"
                          THEN FetchModels(reply.provider, reply.net)
                          ELSE IF reply.provider = "ollama"
                               THEN FetchModels("ollama", reply.net)
                               ELSE ListWithClient(reply.net)
            /\ (reply.op = "getModels" /\ reply.provider = "deepseek") =>
                   ~reply.fetched /\ reply.result = Returns(DeepSeekModels)

\* The openai_compatible client gave the configured model while its endpoint
\* could not be reached.
C23_OverrideWithEndpointDown ==
    /\ reply.op = "getModels"
    /\ reply.provider = "openai_compatible"
    /\ env["OPENAI_COMPATIBLE_MODEL"] = Str(<<"gpt-4o-mini">>)
    /\ reply.net.kind = "rejects"
    /\ reply.result.kind = "returns"

\* A value that is set and has something other than white space in it.
SetNonBlank(v) ==
    v.tag = "string" /\ \E i \in DOMAIN v.text : v.text[i] \notin WhiteSpace

\* The id stands between two commas (or ends) of DISABLED_PROVIDERS with
\* nothing but white space around it.
InDenyList(provider) ==
    LET v == env["DISABLED_PROVIDERS"]
        t == v.text
    IN  /\ v.tag = "string"
        /\ \E a \in 1..Len(t), b \in 1..Len(t) :
              /\ a <= b
              /\ a = 1 \/ t[a - 1] = ","
              /\ b = Len(t) \/ t[b + 1] = ","
              /\ \E i \in a..b :
                    /\ t[i] = provider
                    /\ \A j \in (a..b) \ {i} : t[j] \in WhiteSpace

\* The decision table of the claim.
EnabledByTable(provider) ==
    IF InDenyList(provider) THEN FALSE
    ELSE IF provider \in {"ollama", "lm_studio"} THEN TRUE
    ELSE IF provider = "openai_compatible"
         THEN /\ SetNonBlank(env["OPENAI_COMPATIBLE_API_BASE"])
              /\ SetNonBlank(env["OPENAI_COMPATIBLE_API_KEY"])
         ELSE SetNonBlank(env[PROVIDER_CONFIGS[provider].apiKeyEnvVar])

\* C24: isProviderConfigured(p) is false for a p of the deny-list, its
\* entries trimmed; otherwise true for ollama and lm_studio; otherwise, for
\* openai_compatible, true exactly when its base URL and its API key are both
\* set to non-blank values; otherwise true exactly when the API key of p is
\* set to a non-blank value.
C24_IsProviderConfiguredTable ==
    reply.op = "isProviderConfigured" =>
        reply.result = Returns(EnabledByTable(reply.provider))

\* deepseek, with its key set, was asked for while the deny-list names it
\* after a blank.
C24_DeniedWithCredential ==
    /\ reply.op = "isProviderConfigured"
    /\ reply.provider = "deepseek"
    /\ env["DEEPSEEK_API_KEY"] = Str(<<"sk">>)
    /\ env["DISABLED_PROVIDERS"]
           = Str(<<" ", "ollama", " ", ",", " ", "deepseek">>)
    /\ reply.result = Returns(FALSE)

\* The place of a provider in the declaration of the catalog.
Position(provider) == CHOOSE k \in DOMAIN LLMProvider : LLMProvider[k] = provider

\* C25: getAvailableProviders returns the descriptors of exactly the
\* providers p of the catalog with isProviderConfigured(p), each once, in
\* the order of the catalog's declaration.
C25_AvailableAreTheConfigured ==
    reply.op = "getAvailableProviders" =>
        /\ reply.result.kind = "returns"
        /\ LET r == reply.result.value
           IN  /\ \A i \in DOMAIN r :
                     /\ r[i].id \in LLMProviderValues
                     /\ r[i] = PROVIDER_CONFIGS[r[i].id]
               /\ \A p \in LLMProviderValues :
                     (\E i \in DOMAIN r : r[i].id = p)
                         <=> isProviderConfigured(p)
               /\ \A i \in DOMAIN r, j \in DOMAIN r :
                     i < j => Position(r[i].id) < Position(r[j].id)

\* A listing that leaves out providers for three reasons: no key, a blank
\* key, and the deny-list.
C25_SomeLeftOut ==
    /\ reply.op = "getAvailableProviders"
    /\ env["DISABLED_PROVIDERS"] = Str(<<"ollama">>)
    /\ env["DEEPSEEK_API_KEY"] = Str(<<" ">>)
    /\ [i \in DOMAIN reply.result.value |-> reply.result.value[i].id]
           = <<"anthropic", "openai_compatible", "lm_studio">>

\* C26: for ollama and lm_studio getProviderBaseUrl returns a non-empty
\* location under every configuration, the configured value when one is set
\* and not empty and the default of the descriptor otherwise, and
\* getProviderApiKey returns null under every configuration.
C26_LocalProvidersResolve ==
    (reply.op \in {"getProviderBaseUrl", "getProviderApiKey"}
         /\ reply.provider \in {"ollama", "lm_studio"}) =>
        /\ reply.op = "getProviderBaseUrl" =>
               LET configured ==
                       env[PROVIDER_CONFIGS[reply.provider].baseUrlEnvVar]
               IN  /\ reply.result.kind = "returns"
                   /\ reply.result.value # <<>>
                   /\ reply.result.value =
                          IF configured.tag = "string" /\ configured.text # <<>>
                          THEN configured.text
                          ELSE PROVIDER_CONFIGS[reply.provider].defaultBaseUrl
        /\ reply.op = "getProviderApiKey" => reply.result = Returns(Null)

\* The location of ollama was resolved while OLLAMA_API_BASE is set to the
\* empty string and a key is set for it.
C26_EmptyLocationConfigured ==
    /\ reply.op = "getProviderBaseUrl"
    /\ reply.provider = "ollama"
    /\ env["OLLAMA_API_BASE"] = Str(<<>>)
    /\ env["OLLAMA_API_KEY"] = Str(<<"sk">>)
    /\ reply.result = Returns(<<"http://localhost:11434">>)

\* C27: a lookup of an id that is not in the catalog fails with an error:
\* getProviderConfig returns neither a descriptor nor undefined for it, and
\* createProviderClient makes no client for it.
C27_UnknownIdFails ==
    (reply.op \in {"getProviderConfig", "createProviderClient"}
         /\ reply.provider \notin LLMProviderValues) =>
        reply.result.kind = "throws"

\* A request that reached streamText.
Streamed == reply.op = "POST" /\ reply.result.kind = "returns"

\* C28 as stated: the system prompt streamText gets is the caller's
\* customSystemPrompt under mode "custom", the thinking prompt under mode
\* "thinking" and the default prompt under any other mode.
C28_SystemPromptByMode ==
    Streamed =>
        reply.result.value.system =
            IF reply.systemPromptType = Str(<<"custom">>)
            THEN reply.customSystemPrompt
            ELSE IF reply.systemPromptType = Str(<<"thinking">>)
                 THEN THINKING_SYSTEM_PROMPT
                 ELSE DEFAULT_SYSTEM_PROMPT

\* C28, amended: under mode "custom" the system prompt is the caller's
\* customSystemPrompt when that is a non-empty text and the default prompt
\* when it is empty or missing; under mode "thinking" it is the thinking
\* prompt and under any other mode the default prompt, whatever
\* customSystemPrompt is.
C28_SystemPromptByModeAndText ==
    Streamed =>
        reply.result.value.system =
            IF reply.systemPromptType = Str(<<"custom">>)
            THEN IF reply.customSystemPrompt.tag = "string"
                        /\ reply.customSystemPrompt.text # <<>>
                 THEN reply.customSystemPrompt
                 ELSE DEFAULT_SYSTEM_PROMPT
            ELSE IF reply.systemPromptType = Str(<<"thinking">>)
                 THEN THINKING_SYSTEM_PROMPT
                 ELSE DEFAULT_SYSTEM_PROMPT

\* A request under mode "custom" whose custom prompt is the empty text got
\* the default prompt.
C28_CustomModeEmptyPrompt ==
    /\ Streamed
    /\ reply.systemPromptType = Str(<<"custom">>)
    /\ reply.customSystemPrompt = Str(<<>>)
    /\ reply.result.value.system = DEFAULT_SYSTEM_PROMPT

\* The message of the throw at part_001:77.
GenericHttpMessages == {"HTTP error! status: 400", "HTTP error! status: 500"}

\* C29: every non-success answer of the endpoint carries a JSON body with
\* an error message (route.ts:13-16, 93-96), so the error the catch block
\* classifies, and the notification it shows, is never the generic
\* HTTP-status message.
C29_BodyMessageNotHttpStatus ==
    /\ \A c \in Slots : call[c].error \notin GenericHttpMessages
    /\ \A i \in DOMAIN toasts : toasts[i] \notin GenericHttpMessages

\* The notification the claim's priority order gives for an error text and
\* a provider.
TextsNamingOllama ==
    {"Cannot connect to Ollama. Is the server running?",
     "Unsupported provider: Ollama", "Ollama and LM Studio are not running"}
TextsNamingLMStudio ==
    {"Cannot connect to LM Studio. Is the server running?",
     "Ollama and LM Studio are not running"}
ToastByPriority(text, provider) ==
    CASE text \in TextsNamingOllama ->
             "Cannot connect to Ollama. Is the server running?"
      [] text \notin TextsNamingOllama /\ text \in TextsNamingLMStudio ->
             "Cannot connect to LM Studio. Is the server running?"
      [] OTHER ->
             IF provider \in {<<"deepseek">>, <<"openai_compatible">>}
             THEN "Make sure the Base URL and API Keys are correct in your .env.local file."
             ELSE IF text = ""
                  THEN "Error generating code. Please try again later."
                  ELSE text

\* What the order can give at all.
ToastsOfTheOrder ==
    {ToastByPriority(text, provider) :
        text \in ErrorMessages \cup GenericHttpMessages,
        provider \in ToastProviders}

\* No notification while the request runs; one, the one of the order, once
\* it has failed; none when it completed. The catch block on its own
\* follows the order for every message and provider.
NotifiedByPriority ==
    /\ \A c \in Slots :
          /\ call[c].pc \notin {"idle", "finally"} => toasts = <<>>
          /\ call[c].pc = "finally" =>
                 toasts = IF call[c].error = "" THEN <<>>
                          ELSE <<ToastByPriority(call[c].error,
                                                 call[c].args.provider)>>
    /\ lastOutcome = "complete" => toasts = <<>>
    /\ lastOutcome = "failed" => Len(toasts) = 1
    /\ reply.op = "catch" =>
           reply.toast = ToastByPriority(reply.message, reply.provider)

\* C30 as stated: every request that does not end complete, one that is
\* turned down by the validation included, surfaces exactly one
\* notification, one the priority order gives; a request that completes
\* surfaces none.
C30_OneNotificationByPriority ==
    /\ NotifiedByPriority
    /\ lastOutcome = "invalid" =>
           Len(toasts) = 1 /\ toasts[1] \in ToastsOfTheOrder

\* C30, amended: a request that passes the validation and does not end
\* complete surfaces exactly one notification, chosen by the priority order;
\* a request the validation turns down surfaces exactly the validation
\* notification, whatever its provider; a request that completes surfaces
\* none.
C30_OneNotificationValidationApart ==
    /\ NotifiedByPriority
    /\ lastOutcome = "invalid" => toasts = <<"validation">>

\* The catch block met a message that names both local backends, in a call
\* for deepseek, and gave the Ollama notification.
C30_OllamaBeforeLMStudioBeforeProvider ==
    /\ reply.op = "catch"
    /\ reply.message = "Ollama and LM Studio are not running"
    /\ reply.provider = <<"deepseek">>
    /\ reply.toast = "Cannot connect to Ollama. Is the server running?"


\* ------------------------------------------------------------------ C31..C37

\* The call of slot c has left its reset (lines 39-43) behind and has not
\* returned.
PastReset(c) ==
    call[c].pc \notin {"idle", "L39", "L40", "L41", "L42", "L43"}

\* C31: when a second request starts on the hook while an earlier one is still
\* running, then from the end of the second request's reset on no step of the
\* earlier call changes what the hook publishes: it sets neither generatedCode
\* nor thinkingOutput, it does not clear isGenerating and it does not set
\* generationComplete.  (The run holds two requests, so the call of slot 1 is
\* the earlier one whenever both slots are taken.)
C31_EarlierCallPublishesNothing ==
    [][(/\ PastReset(1)
        /\ PastReset(2)
        /\ call'[1] # call[1])
       => /\ generatedCode' = generatedCode
          /\ thinkingOutput' = thinkingOutput
          /\ isGenerating' = isGenerating
          /\ generationComplete' = generationComplete]_vars

\* The calls of the hook that have not returned.
ActiveCalls == {c \in HookSlots : call[c].pc # "idle"}

\* C32: handleSendNewPrompt run while isGenerating is true or while the new
\* prompt is blank calls generateCode not at all and leaves the prompt text as
\* it is, and it calls generateCode only with isGenerating false; so with
\* requests started by the welcome view's trigger and by this handler, at most
\* one call of the hook is running at any time.
C32_SendIsNoOpWhileGeneratingOrBlank ==
    /\ view.sent.op = "send"
       => /\ (view.sent.isGenerating \/ Trim(view.sent.newPrompt) = <<>>)
             => (~view.sent.called /\ view.sent.kept = view.sent.newPrompt)
          /\ view.sent.called => ~view.sent.isGenerating
    /\ Cardinality(ActiveCalls) <= 1

\* Enter pressed on a prompt that is not blank while a request is reading its
\* response: nothing was called, the text is still there.
C32_SendRefusedWhileStreaming ==
    /\ view.sent.op = "send"
    /\ view.sent.isGenerating
    /\ Trim(view.sent.newPrompt) # <<>>
    /\ ~view.sent.called
    /\ view.newPrompt = view.sent.newPrompt
    /\ isGenerating
    /\ \E c \in HookSlots : call[c].pc = "read"

\* C33: a request that has passed the validation leaves Generating: its call
\* returns with isGenerating false and either generationComplete true or a
\* failure toast shown, whenever the response stream ends or fails at some
\* time; no call stays behind with the flag set.
C33_RequestLeavesGenerating ==
    \A c \in Slots :
        (call[c].pc = "L39")
        ~> (/\ call[c].pc = "idle"
            /\ ~isGenerating
            /\ \/ generationComplete
               \/ lastOutcome = "failed" /\ toasts # <<>>)

\* A request whose transport failed after a record was published has
\* returned: not generating, not complete, one toast.
C33_FailedRequestReturned ==
    /\ requestsLeft = 0
    /\ \A c \in Slots : call[c].pc = "idle"
    /\ ~isGenerating
    /\ ~generationComplete
    /\ lastOutcome = "failed"
    /\ Len(toasts) = 1
    /\ generatedCode # <<>>

\* s is one line: no newline but its last character.
OneLine(s) ==
    /\ s # <<>>
    /\ LastOf(s) = NL
    /\ \A i \in 1..(Len(s) - 1) : s[i] # NL

\* C34: every chunk the encoder enqueues is one JSON object with type "text"
\* or "reasoning" and the delta's content as a string, followed by one newline
\* and holding no other newline, also when the content is empty or holds
\* newlines; and the payload split on newlines is these records, one a line
\* and in order, with nothing after the last newline.
C34_OneJsonObjectPerLine ==
    \A c \in Slots :
        LET chunks == stream[c].enqueued
            deltas == stream[c].consumed
            pieces == SplitLines(Utf8Decode(stream[c].sent))
        IN  /\ Len(chunks) = Len(deltas)
            /\ \A i \in 1..Len(chunks) :
                  LET written == Utf8Decode(chunks[i])
                  IN  /\ OneLine(written)
                      /\ JsonParse(AllButLast(written)) = RecordOf(deltas[i])
            /\ Len(pieces) = Len(deltas) + 1
            /\ LastOf(pieces) = <<>>
            /\ \A i \in 1..Len(deltas) :
                  JsonParse(pieces[i]) = RecordOf(deltas[i])

\* The encoder has written an empty delta and a delta with two newlines.
C34_EmptyAndNewlineDeltasWritten ==
    \E c \in Slots :
        /\ Len(stream[c].consumed) = 2
        /\ \E i, j \in 1..2 :
              /\ stream[c].consumed[i].text = <<>>
              /\ stream[c].consumed[j].text = <<"a", NL, NL, "b">>
        /\ stream[c].state = "closed"

\* How many times the character ch stands in s.
Count(s, ch) == Cardinality({i \in 1..Len(s) : s[i] = ch})

\* C35: after every read of the tag-based hook, whatever the text received so
\* far (a closing tag before the opening one and a closing tag alone included),
\* the received text is, character for character, the text output and the
\* reasoning output together with the delimiters that were recognized: none,
\* the opening tag, or the opening and the closing tag.  Nothing is lost and
\* nothing stands in the outputs twice.
C35_EveryCharacterClassifiedOnce ==
    \E recognized \in {<<>>, OpenTag, OpenTag \o CloseTag} :
        \A ch \in {legacy.receivedText[i] :
                       i \in 1..Len(legacy.receivedText)}
                  \cup {legacy.cleanedCode[i] :
                            i \in 1..Len(legacy.cleanedCode)}
                  \cup {legacy.thinkingText[i] :
                            i \in 1..Len(legacy.thinkingText)} :
            Count(legacy.cleanedCode, ch) + Count(legacy.thinkingText, ch)
                + Count(recognized, ch)
            = Count(legacy.receivedText, ch)

\* What a call of the tag-based hook holds after the chunks feeds, read from
\* the locals as declared.
RECURSIVE FreshRun(_)
FreshRun(feeds) ==
    IF feeds = <<>> THEN LegacyCall(0)
    ELSE LET before == FreshRun(AllButLast(feeds))
             text == Accumulate(before.receivedText, LastOf(feeds))
             after == ExtractThink(before, text)
         IN  [after EXCEPT
                 !.receivedText = text,
                 !.generatedCode = FenceCleanup(after.cleanedCode),
                 !.feeds = feeds]

\* C36: what a call holds and publishes is decided by the chunks of this call
\* alone, whatever the call before held when it was over (an open reasoning
\* block, text received, a stream that failed after some reads): its locals
\* and outputs are those of a run from empty buffers and isInThinkingBlock
\* false over its own chunks; in particular, while its chunks hold no opening
\* tag, nothing is reasoning and the text is the chunks' concatenation.
C36_CallStartsFromFreshState ==
    reply.op = "generateCode"
    => /\ [legacy EXCEPT !.readsLeft = 0] = FreshRun(legacy.feeds)
       /\ IndexOf(Concat(legacy.feeds), OpenTag) = -1
          => /\ legacy.thinkingText = <<>>
             /\ legacy.thinkingOutput = <<>>
             /\ ~legacy.isInThinkingBlock
             /\ ~legacy.isThinking
             /\ legacy.cleanedCode = Concat(legacy.feeds)

\* The call before was over inside an open block with reasoning in it; the
\* next call has read a chunk with a closing tag, and all of it is text.
C36_NextCallAfterOpenBlock ==
    /\ reply.op = "generateCode"
    /\ reply.before.isInThinkingBlock
    /\ reply.before.thinkingText # <<>>
    /\ legacy.feeds = << <<"b">> \o CloseTag \o <<"c">> >>
    /\ legacy.cleanedCode = <<"b">> \o CloseTag \o <<"c">>
    /\ legacy.thinkingText = <<>>

\* C37: whatever chunks the upstream body is read in, once the adapter's
\* stream is closed the text it has emitted is the concatenation, in order, of
\* the response fields of the body's lines: no line is lost, emitted twice or
\* emitted as JSON text.
C37_OutputIndependentOfSplit ==
    ollama.state = "closed"
    => Utf8Decode(Concat(ollama.enqueued)) = Concat(ollama.responses)
=============================================================================
